---- MODULE Spec2Model ----
(***************************************************************************)
(* The verification-and-claim pipeline of the Sofia attestor template:     *)
(* the Mastra verifier workflow (executeLinkSocial.execute), the bot-pays  *)
(* service (BotVerifierService.linkSocialAccount) and the legacy bot       *)
(* attestor (BotAttestorService.createAttestation), run against an         *)
(* OAuth provider, the pinning service and the MultiVault ledger (Spec,     *)
(* with fair scheduling FairSpec, called concurrently ConcSpec);           *)
(* verifyAndGetUserId on its own (OAuthSpec); the user-signed              *)
(* AttestorService.createAttestation with its fee proxy (ClientSpec); and  *)
(* the React hooks useVerification and useAttestation (HookSpec).          *)
(***************************************************************************)
EXTENDS Integers, Sequences, FiniteSets, TLC

(***************************************************************************)
(* Bounds of the model.                                                    *)
(***************************************************************************)
NumInvocations == 2

Procs == 1..NumInvocations

NoVal == "none"

NoTx == <<>>

WalletOrder == <<"0xA", "0xB">>

Wallets == {WalletOrder[i] : i \in 1..Len(WalletOrder)}

AllPlatforms == {"discord", "youtube", "spotify", "twitch", "twitter"}

PipelinePlatforms == {"discord", "twitch"}

UserIds == {"u1"}

PinUriOrder == <<"ipfs://a", "ipfs://b">>

PinUris == {PinUriOrder[i] : i \in 1..Len(PinUriOrder)}

AtomKinds == {"wallet", "predicate", "social"}

WriteKinds == AtomKinds \cup {"triple"}

TxIds == Procs \X WriteKinds

(***************************************************************************)
(* Pure helpers of the code.                                               *)
(***************************************************************************)
PREDICATE_NAMES ==
    [discord |-> "has verified discord id",
     youtube |-> "has verified youtube id",
     spotify |-> "has verified spotify id",
     twitch  |-> "has verified twitch id",
     twitter |-> "has verified twitter id"]

\* viem's stringToHex: an injective encoding of the text as bytes.
stringToHex(s) == <<"hex", s>>

\* MultiVault.calculateAtomId: the id is a function of the payload bytes.
calculateAtomId(data) == <<"atom", data>>

\* MultiVault.calculateTripleId: the id is a function of the three ids.
calculateTripleId(s, p, o) == <<"triple", s, p, o>>

(***************************************************************************)
(* The OAuth provider's answer and verifyAndGetUserId.                     *)
(***************************************************************************)
EmptyBody == [id |-> NoVal, items0id |-> NoVal, data0id |-> NoVal, dataid |-> NoVal]

\* The documented shape of each provider's "who am I" body for user u.
ProviderBody(platform, u) ==
    CASE platform = "discord" -> [EmptyBody EXCEPT !.id = u]
      [] platform = "youtube" -> [EmptyBody EXCEPT !.items0id = u]
      [] platform = "spotify" -> [EmptyBody EXCEPT !.id = u]
      [] platform = "twitch"  -> [EmptyBody EXCEPT !.data0id = u]
      [] platform = "twitter" -> [EmptyBody EXCEPT !.dataid = u]

\* What the provider may answer to one request of the pipeline.
OAuthResponses(platform) ==
    {[status |-> "netfail", body |-> EmptyBody],
     [status |-> "http401", body |-> EmptyBody],
     [status |-> "ok", body |-> EmptyBody]}
    \cup {[status |-> "ok", body |-> ProviderBody(platform, u)] : u \in UserIds}

ExtractUserId_FromId(platform, data) == data.id

\* The switch on platform that extracts the user id from the body.
ExtractUserId(platform, data) ==
    CASE platform = "discord" -> data.id
      [] platform = "youtube" -> data.items0id
      [] platform = "spotify" -> data.id
      [] platform = "twitch"  -> data.data0id
      [] platform = "twitter" -> data.dataid

\* !userId: the field is absent or the empty string.
Falsy(v) == v \in {NoVal, ""}

Invalid(msg) == [valid |-> FALSE, userId |-> NoVal, error |-> msg, threw |-> FALSE]

\* An Error raised inside the try block of verifyAndGetUserId.
Raised(msg) == [valid |-> FALSE, userId |-> NoVal, error |-> msg, threw |-> TRUE]

ClientIdMissing_AnyPlatform(platform, hasClientId) == ~hasClientId

\* The early return of verifyAndGetUserId that precedes its HTTP request.
ClientIdMissing(platform, hasClientId) == platform = "twitch" /\ ~hasClientId

\* The statuses for which response.ok is false.
HttpErrors == {"http401", "http403", "http500"}

\* The body of the try block: fetch rejects on a network failure and
\* response.json() on a body that is not JSON.
VerifyTry(platform, hasClientId, resp) ==
    IF ClientIdMissing(platform, hasClientId)
    THEN Invalid("Twitch Client ID required")
    ELSE IF resp.status = "netfail" THEN Raised("fetch failed")
    ELSE IF resp.status \in HttpErrors THEN Invalid("API returned status")
    ELSE IF resp.status = "okNotJson" THEN Raised("Unexpected token in JSON")
    ELSE IF Falsy(ExtractUserId(platform, resp.body))
         THEN Invalid("Could not extract user ID")
         ELSE [valid |-> TRUE, userId |-> ExtractUserId(platform, resp.body),
               error |-> NoVal, threw |-> FALSE]

OAuthCatch_Rethrow(msg) == Raised(msg)

\* catch (error) { return { valid: false, error: error.message } }
OAuthCatch(msg) == Invalid(msg)

\* verifyAndGetUserId(platform, token, clientId).
verifyAndGetUserId(platform, hasClientId, resp) ==
    LET r == VerifyTry(platform, hasClientId, resp)
    IN  IF r.threw THEN OAuthCatch(r.error) ELSE r

(***************************************************************************)
(* The pinning service's answer and pinToIPFS.                             *)
(***************************************************************************)
PinResponses(uris) ==
    {[status |-> "netfail", errors |-> FALSE, uri |-> NoVal],
     [status |-> "http500", errors |-> FALSE, uri |-> NoVal],
     [status |-> "ok", errors |-> TRUE, uri |-> NoVal],
     [status |-> "ok", errors |-> FALSE, uri |-> NoVal]}
    \cup {[status |-> "ok", errors |-> FALSE, uri |-> u] : u \in uris}

pinToIPFS_NoUriAccepted(resp) ==
    IF resp.status = "netfail" THEN [threw |-> TRUE, msg |-> "fetch failed", uri |-> NoVal]
    ELSE IF resp.status # "ok"
         THEN [threw |-> TRUE, msg |-> "IPFS pinning failed", uri |-> NoVal]
         ELSE [threw |-> FALSE, msg |-> NoVal, uri |-> resp.uri]

\* pinToIPFS: the uri, or the message of the Error it throws.
pinToIPFS(resp) ==
    IF resp.status = "netfail" THEN [threw |-> TRUE, msg |-> "fetch failed", uri |-> NoVal]
    ELSE IF resp.status # "ok"
         THEN [threw |-> TRUE, msg |-> "IPFS pinning failed", uri |-> NoVal]
    ELSE IF resp.errors
         THEN [threw |-> TRUE, msg |-> "IPFS pinning error", uri |-> NoVal]
    ELSE IF resp.uri = NoVal
         THEN [threw |-> TRUE, msg |-> "No IPFS URI returned from pinThing", uri |-> NoVal]
         ELSE [threw |-> FALSE, msg |-> NoVal, uri |-> resp.uri]

(***************************************************************************)
(* State.                                                                  *)
(*   pc, loc, result : each invocation's position, locals and return value *)
(*   calls           : the external calls each invocation has issued       *)
(*   atoms, triples  : the terms created on the MultiVault ledger          *)
(*   txs             : the transactions sent by the invocations            *)
(*   approvals       : MultiVault.approvals(wallet, proxy) of each wallet  *)
(*   hook            : the React state and config of the mounted hook      *)
(*   storage         : what localStorage holds under the storage key       *)
(***************************************************************************)
VARIABLES pc, loc, result, calls, atoms, triples, txs, approvals, hook, storage

\* BotAttestorConfig.predicateId and objectId: the ids of two atoms the
\* operator of the attestor creates beforehand (or has not created yet).
predicateId == calculateAtomId(stringToHex("is_human"))

objectId == calculateAtomId(stringToHex("verified"))

InitialAtoms == {{}, {predicateId, objectId}}

vars == <<pc, loc, result, calls, atoms, triples, txs, approvals, hook, storage>>

Variants == {"workflow", "service"}

InitLoc ==
    [variant |-> NoVal, walletAddress |-> NoVal, platform |-> NoVal,
     oauthToken |-> NoVal, clientId |-> FALSE, userId |-> NoVal,
     socialIpfsUri |-> NoVal,
     exists |-> [k \in AtomKinds |-> FALSE], pendingReads |-> {},
     atomCost |-> 0, tripleCost |-> 0,
     created |-> [k \in AtomKinds |-> FALSE], cur |-> NoVal,
     tokens |-> {}, threshold |-> {}, verified |-> {}]

NoError == [text |-> NoVal, tx |-> NoTx]

NoResult ==
    [success |-> FALSE, reported |-> {}, created |-> {}, error |-> NoError,
     txHash |-> NoTx, tripleAlreadyExists |-> FALSE, verified |-> {}]

NoTxRecord ==
    [status |-> "none", call |-> NoVal, args |-> <<>>, reason |-> NoVal,
     value |-> 0, assets |-> 0, to |-> NoVal]

\* localStorage.getItem(key) === null.
Absent == [kind |-> "absent", walletAddress |-> NoVal, hasLinks |-> FALSE, links |-> {}]

\* No hook is mounted.
NoHook ==
    [kind |-> NoVal, walletAddress |-> NoVal, storageKey |-> FALSE, isDone |-> FALSE,
     can |-> FALSE, inProgress |-> FALSE, error |-> NoVal, resets |-> 0, mounts |-> 0]

\* APPROVAL_TYPE of MultiVault.
APPROVAL_TYPE == [NONE |-> 0, DEPOSIT |-> 1, REDEEM |-> 2, BOTH |-> 3]

Init ==
    /\ pc = [p \in Procs |-> "idle"]
    /\ loc = [p \in Procs |-> InitLoc]
    /\ result = [p \in Procs |-> NoResult]
    /\ calls = [p \in Procs |-> <<>>]
    /\ atoms \in InitialAtoms
    /\ triples = {}
    /\ txs = [t \in TxIds |-> NoTxRecord]
    /\ approvals = [w \in Wallets |-> APPROVAL_TYPE.NONE]
    /\ hook = NoHook
    /\ storage = Absent

Done(p) == pc[p] \in {"returned", "threw", "archived"}

\* The invocation has ended and its result is still with its locals.
Ended(p) == pc[p] \in {"returned", "threw"}

\* What remains of an invocation once the next one begins: whether it
\* succeeded, and for which wallet and platform (its locals are gone).
Returned(q) ==
    IF result[q].success
    THEN [InitLoc EXCEPT !.walletAddress = loc[q].walletAddress,
                         !.platform = loc[q].platform]
    ELSE InitLoc

ReturnedResult(q) == [NoResult EXCEPT !.success = result[q].success]

\* An ended invocation keeps only its result once the next one begins.
Archive == [q \in Procs |-> IF Ended(q) THEN "archived" ELSE pc[q]]

ArchiveCalls == [q \in Procs |-> IF Done(q) THEN <<>> ELSE calls[q]]

ArchiveResults == [q \in Procs |-> IF Done(q) THEN ReturnedResult(q) ELSE result[q]]

(***************************************************************************)
(* The data and ids the pipeline derives from its locals.                  *)
(***************************************************************************)
walletAtomData(l) == stringToHex(l.walletAddress)

predicateDataHex_OfWallet(l) == stringToHex(l.walletAddress)

predicateDataHex(l) == stringToHex(PREDICATE_NAMES[l.platform])

socialAtomDataHex_FromUserId(l) == stringToHex(l.userId)

socialAtomDataHex(l) == stringToHex(l.socialIpfsUri)

\* The payload submitted when the node of kind k is created.
AtomData(l, k) ==
    CASE k = "wallet"    -> walletAtomData(l)
      [] k = "predicate" -> predicateDataHex(l)
      [] k = "social"    -> socialAtomDataHex(l)

\* walletAtomId, predicateAtomId, socialAtomId.
AtomId(l, k) ==
    IF l.variant = "attestor" /\ k = "predicate" THEN predicateId
    ELSE IF l.variant = "attestor" /\ k = "social" THEN objectId
    ELSE calculateAtomId(AtomData(l, k))

TripleArgs_ObjectFirst(l) ==
    <<AtomId(l, "social"), AtomId(l, "predicate"), AtomId(l, "wallet")>>

\* The args of the createTriples call: subject, predicate, object.
TripleArgs(l) == <<AtomId(l, "wallet"), AtomId(l, "predicate"), AtomId(l, "social")>>

\* MultiVault.isTermCreated.
isTermCreated(id) == id \in atoms \cup triples

(***************************************************************************)
(* The results the code returns.                                           *)
(***************************************************************************)
Failure(text, tx, reported, l) ==
    [success |-> FALSE, reported |-> reported,
     created |-> {k \in reported : l.created[k]},
     error |-> [text |-> text, tx |-> tx], txHash |-> NoTx,
     tripleAlreadyExists |-> FALSE, verified |-> l.verified]

\* The *Created flags of a result: the attestor has atomCreated alone.
Flags(variant) == IF variant = "attestor" THEN {"wallet"} ELSE AtomKinds

Success_AllCreated(tx, l) ==
    [success |-> TRUE, reported |-> Flags(l.variant), created |-> Flags(l.variant),
     error |-> NoError, txHash |-> tx,
     tripleAlreadyExists |-> FALSE, verified |-> l.verified]

Success(tx, l) ==
    [success |-> TRUE, reported |-> Flags(l.variant),
     created |-> {k \in Flags(l.variant) : l.created[k]},
     error |-> NoError, txHash |-> tx,
     tripleAlreadyExists |-> FALSE, verified |-> l.verified]

AlreadyExists_AsFailure(l) == Failure("Triple already exists", NoTx, {"wallet"}, l)

\* The attestor's return when the triple is found to exist.
AlreadyExists(l) == [Success(NoTx, l) EXCEPT !.tripleAlreadyExists = TRUE]

\* The flags the workflow includes when the receipt of node k is not a success.
ReportedOnAtomFailure(k) ==
    CASE k = "wallet"    -> {}
      [] k = "predicate" -> {"wallet"}
      [] k = "social"    -> {"wallet", "predicate"}

\* The catch block of each variant, applied to the thrown message.
CatchResult(variant, msg, tx, l) ==
    IF variant = "service" /\ msg = "AtomExists"
    THEN Failure("account is already linked to another wallet", NoTx, {}, l)
    ELSE Failure(msg, tx, {}, l)

\* The awaited reads of createAttestation, in program order.
AttestorReads ==
    {"a_calcId", "a_userExists", "a_atomCost", "a_predExists", "a_objExists",
     "a_tripleId", "a_tripleExists", "a_tripleCost", "a_balance", "a_isAtom",
     "a_estimate"}

TryStages_PinOutside(variant) ==
    CASE variant = "workflow" -> {"key", "calcIds", "exists", "costs", "send", "wait"}
      [] variant = "service"  -> {"calcIds", "exists", "costs", "send", "wait"}
      [] variant = "attestor" -> AttestorReads \cup {"send", "wait"}

\* The stages of each variant that run inside its try block.
TryStages(variant) ==
    CASE variant = "workflow" -> {"key", "pin", "calcIds", "exists", "costs", "send", "wait"}
      [] variant = "service"  -> {"pin", "calcIds", "exists", "costs", "send", "wait"}
      [] variant = "attestor" -> AttestorReads \cup {"send", "wait"}

OnThrow_Retry(variant, stage, msg, tx, l) == [pc |-> stage, result |-> NoResult]

\* An exception raised at a stage: caught and returned, or escaping.
OnThrow(variant, stage, msg, tx, l) ==
    IF stage \in TryStages(variant)
    THEN [pc |-> "returned", result |-> CatchResult(variant, msg, tx, l)]
    ELSE [pc |-> "threw", result |-> NoResult]

(***************************************************************************)
(* The MultiVault ledger and the transport.                                *)
(***************************************************************************)
AtomCosts == {2}

TripleCosts == {3}

\* Amounts are counted in tenths of a TRUST.
\* BOT_DEPOSIT_CONFIG of the verifier (the workflow's atomDeposit and
\* tripleExtraDeposit are the same amounts).
BOT_DEPOSIT_CONFIG == [ATOM_DEPOSIT |-> 5, TRIPLE_EXTRA |-> 5]

\* DEPOSIT_CONFIG of the legacy bot attestor.
DEPOSIT_CONFIG == [ATOM_DEPOSIT |-> 20, TRIPLE_EXTRA |-> 5]

Deposits(variant) == IF variant = "attestor" THEN DEPOSIT_CONFIG ELSE BOT_DEPOSIT_CONFIG

\* The statuses the ledger may give a mined transaction, with the reason.
MineOutcomes(tx) ==
    IF tx.call = "createAtoms"
    THEN IF calculateAtomId(tx.args[1]) \in atoms
         THEN {[status |-> "reverted", reason |-> "AtomExists"]}
         ELSE {[status |-> "success", reason |-> NoVal],
               [status |-> "reverted", reason |-> "InsufficientBalance"]}
    ELSE IF ~({tx.args[1], tx.args[2], tx.args[3]} \subseteq atoms)
         THEN {[status |-> "reverted", reason |-> "AtomDoesNotExist"]}
    ELSE IF calculateTripleId(tx.args[1], tx.args[2], tx.args[3]) \in triples
         THEN {[status |-> "reverted", reason |-> "TripleExists"]}
         ELSE {[status |-> "success", reason |-> NoVal],
               [status |-> "reverted", reason |-> "InsufficientBalance"]}

\* The messages sendTransaction may throw for the write of kind k.
SendErrors(l, k) ==
    {"insufficient funds"}
    \cup (IF k \in AtomKinds /\ AtomId(l, k) \in atoms THEN {"AtomExists"} ELSE {})
    \cup (IF k = "triple"
             /\ calculateTripleId(TripleArgs(l)[1], TripleArgs(l)[2], TripleArgs(l)[3])
                    \in triples
          THEN {"TripleExists"} ELSE {})

\* The messages an awaited call may throw at each stage.
ThrowMsgs(l, stage) ==
    CASE stage \in {"calcIds", "exists", "costs"} \cup (AttestorReads \ {"a_estimate"})
           -> {"network error"}
      [] stage = "a_estimate" -> {}
      [] stage = "send" -> SendErrors(l, l.cur)
      [] stage = "wait" -> {"receipt timeout"}

(***************************************************************************)
(* The steps of the claim pipeline.                                        *)
(***************************************************************************)
NeedsCreate_Inverted(l, k) == l.exists[k]

\* if (!walletAtomExists) ..., if (!predicateAtomExists) ..., if (!socialAtomExists) ...
NeedsCreate(l, k) == ~l.exists[k]

CheckedId_Swapped(l, k) ==
    AtomId(l, CASE k = "predicate" -> "social" [] k = "social" -> "predicate" [] OTHER -> k)

\* The id whose isTermCreated answer is bound to the exists flag of kind k
\* (the order of the Promise.all and of its destructuring).
CheckedId(l, k) == AtomId(l, k)

VerificationRejected_Dropped(v) == FALSE

\* if (!verification.valid || !verification.userId) return ...
VerificationRejected(v) == ~v.valid \/ v.userId = NoVal

NextWrite_SocialFirst(l, after) ==
    LET rest == CASE after = NoVal       -> <<"social", "predicate", "wallet">>
                  [] after = "social"    -> <<"predicate", "wallet">>
                  [] after = "predicate" -> <<"wallet">>
                  [] after = "wallet"    -> <<>>
        need == SelectSeq(rest, LAMBDA k : NeedsCreate(l, k))
    IN  IF need = <<>> THEN "triple" ELSE Head(need)

\* The write that follows the write of kind `after` (NoVal: the first write).
NextWrite(l, after) ==
    LET rest == CASE after = NoVal       -> <<"wallet", "predicate", "social">>
                  [] after = "wallet"    -> <<"predicate", "social">>
                  [] after = "predicate" -> <<"social">>
                  [] after = "social"    -> <<>>
        need == SelectSeq(rest, LAMBDA k : NeedsCreate(l, k))
    IN  IF need = <<>> THEN "triple" ELSE Head(need)

WriteValue_CostOnly(l, k) == IF k = "triple" THEN l.tripleCost ELSE l.atomCost

\* The value sent with the write of kind k: atomTotalValue, tripleDepositAmount.
WriteValue(l, k) ==
    IF k = "triple"
    THEN l.tripleCost + Deposits(l.variant).TRIPLE_EXTRA
    ELSE l.atomCost + Deposits(l.variant).ATOM_DEPOSIT

\* The assets argument of the write of kind k: the attestor's createAtoms
\* passes the deposit alone.
WriteAssets(l, k) ==
    IF l.variant = "attestor" /\ k # "triple"
    THEN DEPOSIT_CONFIG.ATOM_DEPOSIT
    ELSE WriteValue(l, k)

\* The calldata of the write of kind k.
WriteCall(l, k) ==
    IF k = "triple"
    THEN [status |-> "pending", call |-> "createTriples", args |-> TripleArgs(l),
          reason |-> NoVal, value |-> WriteValue(l, k), assets |-> WriteAssets(l, k),
          to |-> "multivault"]
    ELSE [status |-> "pending", call |-> "createAtoms", args |-> <<AtomData(l, k)>>,
          reason |-> NoVal, value |-> WriteValue(l, k), assets |-> WriteAssets(l, k),
          to |-> "multivault"]

MissingInput_TokenUnchecked(l) ==
    IF l.variant # "workflow" THEN NoVal
    ELSE IF l.walletAddress = NoVal THEN "walletAddress is required"
    ELSE IF l.platform = NoVal THEN "platform is required"
    ELSE NoVal

\* The first missing input field of the workflow, or NoVal.
MissingInput(l) ==
    IF l.variant # "workflow" THEN NoVal
    ELSE IF l.walletAddress = NoVal THEN "walletAddress is required"
    ELSE IF l.platform = NoVal THEN "platform is required"
    ELSE IF l.oauthToken = NoVal THEN "oauthToken is required"
    ELSE NoVal

\* process.env.BOT_PRIVATE_KEY as the workflow may find it; the service holds
\* an account built by its constructor.
KeyStates(variant) ==
    IF variant = "workflow" THEN {"missing", "invalid", "valid"} ELSE {"valid"}

OnReceiptFailure_NoFlags(variant, k, tx, l) ==
    [pc |-> "returned", result |-> Failure("creation failed", tx, {}, l)]

OnReceiptFailure_SendAgain(variant, k, tx, l) == [pc |-> "send", result |-> NoResult]

\* What the code does when the receipt of the write of kind k is not a success.
OnReceiptFailure(variant, k, tx, l) ==
    IF k = "triple"
    THEN [pc |-> "returned",
          result |-> Failure("Triple creation failed", tx, Flags(variant), l)]
    ELSE IF variant = "workflow"
         THEN [pc |-> "returned",
               result |-> Failure("atom creation failed", tx, ReportedOnAtomFailure(k), l)]
    ELSE IF variant = "attestor"
         THEN [pc |-> "returned", result |-> Failure("Atom creation failed", tx, {}, l)]
         ELSE OnThrow(variant, "wait", "Atom creation failed", tx, l)

ReceiptOk_Unchecked(tx) == tx.status \in {"success", "reverted"}

\* receipt.status === 'success'
ReceiptOk(tx) == tx.status = "success"

\* Where the code goes once the node of kind k is confirmed.
AfterAtomCreated(l, k) ==
    IF l.variant = "attestor"
    THEN [pc |-> "a_predExists", cur |-> NoVal]
    ELSE [pc |-> "send", cur |-> NextWrite(l, k)]

Sequential(p) ==
    /\ \A q \in Procs : q < p => pc[q] # "idle"
    /\ \A q \in Procs \ {p} : pc[q] = "idle" \/ Done(q)

\* The payloads the ledger or an invocation holds.
KnownData(data) ==
    \/ calculateAtomId(data) \in atoms
    \/ \E t \in TxIds : txs[t].status = "pending" /\ txs[t].args = <<data>>
    \/ \E q \in Procs : data \in {walletAtomData(loc[q]), socialAtomDataHex(loc[q])}

\* Wallet addresses (and pinned URIs) are interchangeable texts: a new one is
\* the first of its order that nothing holds yet.
UpToFirstNew(order) ==
    {order[i] : i \in {i \in 1..Len(order) :
                          \A j \in 1..(i - 1) : KnownData(stringToHex(order[j]))}}

\* The inputs of one invocation.
Inputs ==
    {[InitLoc EXCEPT !.variant = v, !.walletAddress = w, !.platform = pf,
                     !.oauthToken = tok, !.clientId = cid] :
        v \in Variants, w \in UpToFirstNew(WalletOrder) \cup {NoVal},
        pf \in PipelinePlatforms \cup {NoVal}, tok \in {"token", NoVal},
        cid \in BOOLEAN}

ValidInput(l) ==
    l.variant = "workflow"
    \/ (l.walletAddress # NoVal /\ l.platform # NoVal /\ l.oauthToken # NoVal)

\* The invocation begins with one of the inputs and runs to its first await.
Begin(p, inputs) ==
    /\ pc[p] = "idle"
    /\ \E l \in inputs :
         /\ ValidInput(l)
         /\ loc' = [q \in Procs |->
                      IF q = p THEN l ELSE IF Done(q) THEN Returned(q) ELSE loc[q]]
         /\ IF MissingInput(l) # NoVal
            THEN /\ pc' = [Archive EXCEPT ![p] = "returned"]
                 /\ result' = [ArchiveResults EXCEPT ![p] = Failure(MissingInput(l), NoTx, {}, l)]
                 /\ calls' = [ArchiveCalls EXCEPT ![p] = <<>>]
            ELSE IF ClientIdMissing(l.platform, l.clientId)
            THEN /\ pc' = [Archive EXCEPT ![p] = "returned"]
                 /\ result' = [ArchiveResults EXCEPT ![p] =
                        Failure(verifyAndGetUserId(l.platform, l.clientId,
                                    [status |-> "netfail", body |-> EmptyBody]).error,
                                NoTx, {}, l)]
                 /\ calls' = [ArchiveCalls EXCEPT ![p] = <<>>]
            ELSE /\ pc' = [Archive EXCEPT ![p] = "verify"]
                 /\ result' = ArchiveResults
                 /\ calls' = [ArchiveCalls EXCEPT ![p] = <<"oauth">>]
    /\ txs' = [t \in TxIds |->
                 IF Done(t[1]) /\ txs[t].status # "pending" THEN NoTxRecord ELSE txs[t]]
    /\ UNCHANGED <<atoms, triples, approvals, hook, storage>>

\* An invocation that begins once the earlier ones have ended.
Start(p) == Sequential(p) /\ Begin(p, Inputs)

\* The provider answers; the pipeline checks the result, loads the key and pins.
VerifyReply(p) ==
    /\ pc[p] = "verify"
    /\ \E resp \in OAuthResponses(loc[p].platform), key \in KeyStates(loc[p].variant) :
         LET l == loc[p]
             v == verifyAndGetUserId(l.platform, l.clientId, resp)
             l2 == [l EXCEPT !.userId = v.userId, !.clientId = FALSE]
         IN  IF v.threw
             THEN /\ pc' = [pc EXCEPT ![p] = "threw"]
                  /\ loc' = [loc EXCEPT ![p] = [l EXCEPT !.clientId = FALSE]]
                  /\ UNCHANGED <<result, calls>>
             ELSE IF VerificationRejected(v)
             THEN /\ pc' = [pc EXCEPT ![p] = "returned"]
                  /\ result' = [result EXCEPT ![p] = Failure(v.error, NoTx, {}, l)]
                  /\ loc' = [loc EXCEPT ![p] = [l EXCEPT !.clientId = FALSE]]
                  /\ calls' = calls
             ELSE IF key = "missing"
             THEN /\ pc' = [pc EXCEPT ![p] = "returned"]
                  /\ result' = [result EXCEPT ![p] =
                         Failure("BOT_PRIVATE_KEY not configured on server", NoTx, {}, l2)]
                  /\ loc' = [loc EXCEPT ![p] = l2]
                  /\ calls' = calls
             ELSE IF key = "invalid"
             THEN LET o == OnThrow(l.variant, "key", "invalid private key", NoTx, l2)
                  IN  /\ pc' = [pc EXCEPT ![p] = o.pc]
                      /\ result' = [result EXCEPT ![p] = o.result]
                      /\ loc' = [loc EXCEPT ![p] = l2]
                      /\ calls' = calls
             ELSE /\ pc' = [pc EXCEPT ![p] = "pin"]
                  /\ result' = result
                  /\ loc' = [loc EXCEPT ![p] = l2]
                  /\ calls' = [calls EXCEPT ![p] = Append(@, "pinThing")]
    /\ UNCHANGED <<atoms, triples, txs, approvals, hook, storage>>

\* The pinning service answers; the three calculateAtomId reads are issued.
PinReply(p) ==
    /\ pc[p] = "pin"
    /\ \E resp \in PinResponses(UpToFirstNew(PinUriOrder)) :
         LET l == loc[p]
             r == pinToIPFS(resp)
             o == OnThrow(l.variant, "pin", r.msg, NoTx, l)
         IN  IF r.threw
             THEN /\ pc' = [pc EXCEPT ![p] = o.pc]
                  /\ result' = [result EXCEPT ![p] = o.result]
                  /\ UNCHANGED <<loc, calls>>
             ELSE /\ pc' = [pc EXCEPT ![p] = "calcIds"]
                  /\ loc' = [loc EXCEPT ![p].socialIpfsUri = r.uri]
                  /\ calls' = [calls EXCEPT ![p] = Append(@, "calculateAtomId")]
                  /\ result' = result
    /\ UNCHANGED <<atoms, triples, txs, approvals, hook, storage>>

\* The ids are known; the three isTermCreated reads are issued together.
CalcIdsReply(p) ==
    /\ pc[p] = "calcIds"
    /\ pc' = [pc EXCEPT ![p] = "exists"]
    /\ loc' = [loc EXCEPT ![p].pendingReads = AtomKinds]
    /\ calls' = [calls EXCEPT ![p] = Append(@, "isTermCreated")]
    /\ UNCHANGED <<result, atoms, triples, txs, approvals, hook, storage>>

AllChecksReturned_AnyOne(l) == TRUE

\* await Promise.all of the three isTermCreated reads: all have answered.
AllChecksReturned(l) == l.pendingReads = {}

\* One isTermCreated read is answered; after the last, the cost reads are issued.
ExistsReply(p, k) ==
    /\ pc[p] = "exists"
    /\ k \in loc[p].pendingReads
    /\ LET l == [loc[p] EXCEPT !.exists[k] = isTermCreated(CheckedId(loc[p], k)),
                               !.pendingReads = @ \ {k}]
       IN  /\ loc' = [loc EXCEPT ![p] = l]
           /\ IF AllChecksReturned(l)
              THEN /\ pc' = [pc EXCEPT ![p] = "costs"]
                   /\ calls' = [calls EXCEPT ![p] = @ \o <<"getAtomCost", "getTripleCost">>]
              ELSE UNCHANGED <<pc, calls>>
    /\ UNCHANGED <<result, atoms, triples, txs, approvals, hook, storage>>

\* Both costs are known; the first write is prepared.
CostsReply(p) ==
    /\ pc[p] = "costs"
    /\ \E ac \in AtomCosts, tc \in TripleCosts :
         loc' = [loc EXCEPT ![p].atomCost = ac, ![p].tripleCost = tc,
                            ![p].cur = NextWrite(loc[p], NoVal)]
    /\ pc' = [pc EXCEPT ![p] = "send"]
    /\ UNCHANGED <<result, calls, atoms, triples, txs, approvals, hook, storage>>

\* sendTransaction returns the hash: the write is submitted.
Submit(p) ==
    /\ pc[p] = "send"
    /\ txs' = [txs EXCEPT ![<<p, loc[p].cur>>] = WriteCall(loc[p], loc[p].cur)]
    /\ calls' = [calls EXCEPT ![p] = Append(@, txs'[<<p, loc[p].cur>>].call)]
    /\ pc' = [pc EXCEPT ![p] = "wait"]
    /\ UNCHANGED <<loc, result, atoms, triples, approvals, hook, storage>>

\* The ledger mines a submitted transaction.
Mine(t) ==
    /\ txs[t].status = "pending"
    /\ \E o \in MineOutcomes(txs[t]) :
         /\ txs' = [txs EXCEPT ![t].status = o.status, ![t].reason = o.reason]
         /\ atoms' = IF o.status = "success" /\ txs[t].call = "createAtoms"
                     THEN atoms \cup {calculateAtomId(txs[t].args[1])} ELSE atoms
         /\ triples' = IF o.status = "success" /\ txs[t].call = "createTriples"
                       THEN triples \cup {calculateTripleId(txs[t].args[1], txs[t].args[2],
                                                           txs[t].args[3])}
                       ELSE triples
    /\ UNCHANGED <<pc, loc, result, calls, approvals, hook, storage>>

\* waitForTransactionReceipt returns the receipt of the current write.
Receipt(p) ==
    /\ pc[p] = "wait"
    /\ LET l == loc[p]
           k == l.cur
           t == <<p, k>>
       IN  /\ txs[t].status \in {"success", "reverted"}
           /\ IF ~ReceiptOk(txs[t])
              THEN LET o == OnReceiptFailure(l.variant, k, t, l)
                   IN  /\ pc' = [pc EXCEPT ![p] = o.pc]
                       /\ result' = [result EXCEPT ![p] = o.result]
                       /\ loc' = loc
              ELSE IF k = "triple"
              THEN /\ pc' = [pc EXCEPT ![p] = "returned"]
                   /\ result' = [result EXCEPT ![p] = Success(t, l)]
                   /\ loc' = loc
              ELSE /\ pc' = [pc EXCEPT ![p] = AfterAtomCreated(l, k).pc]
                   /\ loc' = [loc EXCEPT ![p].created[k] = TRUE,
                                         ![p].cur = AfterAtomCreated(l, k).cur]
                   /\ result' = result
    /\ UNCHANGED <<calls, atoms, triples, txs, approvals, hook, storage>>

\* An awaited ledger call throws.
Throw(p) ==
    /\ pc[p] \in {"calcIds", "exists", "costs", "send", "wait"} \cup AttestorReads
    /\ \E msg \in ThrowMsgs(loc[p], pc[p]) :
         LET o == OnThrow(loc[p].variant, pc[p], msg, NoTx, loc[p])
         IN  /\ pc' = [pc EXCEPT ![p] = o.pc]
             /\ result' = [result EXCEPT ![p] = o.result]
    /\ UNCHANGED <<loc, calls, atoms, triples, txs, approvals, hook, storage>>

(***************************************************************************)
(* BotAttestorService.createAttestation.                                   *)
(***************************************************************************)
DEFAULT_THRESHOLD == 5

\* The token sets a request may carry, the thresholds a config may set
\* ({}: none set) and the platforms whose provider accepts the token.
TokenSets == {{}, {"discord"}, AllPlatforms}

Thresholds == {{}, {1}}

AcceptingSets == {AllPlatforms, AllPlatforms \ {"twitch"}, {}}

Threshold_ConfiguredOrOne(l) == IF l.threshold = {} THEN 1 ELSE CHOOSE n \in l.threshold : TRUE

\* verificationThreshold ?? 5
Threshold(l) == IF l.threshold = {} THEN DEFAULT_THRESHOLD ELSE CHOOSE n \in l.threshold : TRUE

\* verifyTokens: a platform is verified when its token is supplied and its
\* provider answers ok; twitch also needs the configured client id.
verifyTokens(tokens, accepting, hasClientId) ==
    {pf \in tokens : pf \in accepting /\ (pf = "twitch" => hasClientId)}

\* MultiVault.isAtom.
isAtom(id) == id \in atoms

Goto(stage, l) == [pc |-> stage, loc |-> l, result |-> NoResult]

Return(r, l) == [pc |-> "returned", loc |-> l, result |-> r]

\* The code that follows each awaited read of createAttestation; ans is the
\* answer where the ledger state does not fix it (the balance suffices).
AttestorAfterRead(l, stage, ans) ==
    CASE stage = "a_calcId" -> Goto("a_userExists", l)
      [] stage = "a_userExists" ->
           LET l2 == [l EXCEPT !.exists["wallet"] = isTermCreated(AtomId(l, "wallet"))]
           IN  IF ~l2.exists["wallet"] THEN Goto("a_atomCost", l2)
               ELSE Goto("a_predExists", l2)
      [] stage = "a_atomCost" ->
           Goto("send", [l EXCEPT !.cur = "wallet",
                                  !.atomCost = CHOOSE c \in AtomCosts : TRUE])
      [] stage = "a_predExists" ->
           Goto("a_objExists", [l EXCEPT !.exists["predicate"] = isTermCreated(predicateId)])
      [] stage = "a_objExists" ->
           LET l2 == [l EXCEPT !.exists["social"] = isTermCreated(objectId)]
           IN  IF ~l2.exists["predicate"] \/ ~l2.exists["social"]
               THEN Return(Failure("Required atoms missing", NoTx, {"wallet"}, l2), l2)
               ELSE Goto("a_tripleId", l2)
      [] stage = "a_tripleId" -> Goto("a_tripleExists", l)
      [] stage = "a_tripleExists" ->
           IF isTermCreated(calculateTripleId(AtomId(l, "wallet"), predicateId, objectId))
           THEN Return(AlreadyExists(l), l)
           ELSE Goto("a_tripleCost", l)
      [] stage = "a_tripleCost" ->
           Goto("a_balance", [l EXCEPT !.tripleCost = CHOOSE c \in TripleCosts : TRUE])
      [] stage = "a_balance" ->
           IF ~ans
           THEN Return(Failure("Insufficient bot balance", NoTx, {"wallet"}, l), l)
           ELSE Goto("a_isAtom", l)
      [] stage = "a_isAtom" ->
           IF ~isAtom(AtomId(l, "wallet")) \/ ~isAtom(predicateId) \/ ~isAtom(objectId)
           THEN Return(Failure("One or more IDs are not atoms", NoTx, {"wallet"}, l), l)
           ELSE Goto("a_estimate", l)
      [] stage = "a_estimate" -> Goto("send", [l EXCEPT !.cur = "triple"])

\* The contract read (or other call) each stage awaits.
CallOf(stage) ==
    CASE stage \in {"a_calcId"} -> <<"calculateAtomId">>
      [] stage \in {"a_userExists", "a_predExists", "a_objExists", "a_tripleExists"}
           -> <<"isTermCreated">>
      [] stage = "a_atomCost" -> <<"getAtomCost">>
      [] stage = "a_tripleCost" -> <<"getTripleCost">>
      [] stage = "a_tripleId" -> <<"calculateTripleId">>
      [] stage = "a_balance" -> <<"getBalance">>
      [] stage = "a_isAtom" -> <<"isAtom">>
      [] stage = "a_estimate" -> <<"estimateGas">>
      [] OTHER -> <<>>

AttestorInputs ==
    {[InitLoc EXCEPT !.variant = "attestor", !.walletAddress = w, !.tokens = toks,
                     !.threshold = th, !.clientId = cid] :
        w \in UpToFirstNew(WalletOrder), toks \in TokenSets, th \in Thresholds,
        cid \in BOOLEAN}

\* createAttestation begins: the tokens supplied are sent to their providers.
StartAttestation(p) ==
    /\ pc[p] = "idle"
    /\ Sequential(p)
    /\ \E l \in AttestorInputs :
         /\ loc' = [q \in Procs |->
                      IF q = p THEN l ELSE IF Done(q) THEN Returned(q) ELSE loc[q]]
         /\ calls' = [ArchiveCalls EXCEPT ![p] = IF l.tokens = {} THEN <<>> ELSE <<"oauth">>]
    /\ pc' = [Archive EXCEPT ![p] = "a_verify"]
    /\ result' = ArchiveResults
    /\ txs' = [t \in TxIds |->
                 IF Done(t[1]) /\ txs[t].status # "pending" THEN NoTxRecord ELSE txs[t]]
    /\ UNCHANGED <<atoms, triples, approvals, hook, storage>>

\* verifyTokens returns; below the threshold the attestation is refused.
TokensVerified(p) ==
    /\ pc[p] = "a_verify"
    /\ \E accepting \in AcceptingSets :
         LET l == [loc[p] EXCEPT
                      !.verified = verifyTokens(loc[p].tokens, accepting, loc[p].clientId),
                      !.clientId = FALSE]
         IN  /\ loc' = [loc EXCEPT ![p] = l]
             /\ IF Cardinality(l.verified) < Threshold(l)
                THEN /\ pc' = [pc EXCEPT ![p] = "returned"]
                     /\ result' = [result EXCEPT ![p] =
                            Failure("Not enough platforms verified", NoTx, {}, l)]
                     /\ calls' = calls
                ELSE /\ pc' = [pc EXCEPT ![p] = "a_calcId"]
                     /\ result' = result
                     /\ calls' = [calls EXCEPT ![p] = @ \o CallOf("a_calcId")]
    /\ UNCHANGED <<atoms, triples, txs, approvals, hook, storage>>

\* One awaited read of createAttestation is answered.
AttestorRead(p) ==
    /\ pc[p] \in AttestorReads
    /\ \E ans \in (IF pc[p] = "a_balance" THEN BOOLEAN ELSE {TRUE}) :
         LET o == AttestorAfterRead(loc[p], pc[p], ans)
         IN  /\ pc' = [pc EXCEPT ![p] = o.pc]
             /\ loc' = [loc EXCEPT ![p] = o.loc]
             /\ result' = [result EXCEPT ![p] = o.result]
             /\ calls' = [calls EXCEPT ![p] = @ \o CallOf(o.pc)]
    /\ UNCHANGED <<atoms, triples, txs, approvals, hook, storage>>

Next ==
    \/ \E p \in Procs : Start(p)
    \/ \E p \in Procs : StartAttestation(p)
    \/ \E p \in Procs : TokensVerified(p)
    \/ \E p \in Procs : AttestorRead(p)
    \/ \E p \in Procs : VerifyReply(p)
    \/ \E p \in Procs : PinReply(p)
    \/ \E p \in Procs : CalcIdsReply(p)
    \/ \E p \in Procs, k \in AtomKinds : ExistsReply(p, k)
    \/ \E p \in Procs : CostsReply(p)
    \/ \E p \in Procs : Submit(p)
    \/ \E t \in TxIds : Mine(t)
    \/ \E p \in Procs : Receipt(p)
    \/ \E p \in Procs : Throw(p)

Spec == Init /\ [][Next]_vars

\* One step of invocation p: an awaited call returns or fails and the code
\* runs to its next await.
Step(p) ==
    \/ TokensVerified(p)
    \/ AttestorRead(p)
    \/ VerifyReply(p)
    \/ PinReply(p)
    \/ CalcIdsReply(p)
    \/ \E k \in AtomKinds : ExistsReply(p, k)
    \/ CostsReply(p)
    \/ Submit(p)
    \/ Receipt(p)
    \/ Throw(p)

\* Every awaited call of every invocation eventually returns or fails; the
\* ledger need not mine a transaction (the wait for its receipt then fails).
FairSpec == Spec /\ \A p \in Procs : WF_vars(Step(p))

(***************************************************************************)
(* The claim pipeline called concurrently: the HTTP server starts an       *)
(* invocation per request, and every invocation signs with the one bot     *)
(* account.                                                                *)
(***************************************************************************)
\* The complete inputs of a request.
ConcurrentInputs ==
    {l \in Inputs : /\ NoVal \notin {l.walletAddress, l.platform, l.oauthToken}
                    /\ l.clientId}

\* A request arrives while other invocations may be running.
StartConcurrent(p) == Begin(p, ConcurrentInputs)

ConcNext ==
    \/ \E p \in Procs : StartConcurrent(p)
    \/ \E p \in Procs : VerifyReply(p)
    \/ \E p \in Procs : PinReply(p)
    \/ \E p \in Procs : CalcIdsReply(p)
    \/ \E p \in Procs, k \in AtomKinds : ExistsReply(p, k)
    \/ \E p \in Procs : CostsReply(p)
    \/ \E p \in Procs : Submit(p)
    \/ \E t \in TxIds : Mine(t)
    \/ \E p \in Procs : Receipt(p)
    \/ \E p \in Procs : Throw(p)

ConcSpec == Init /\ [][ConcNext]_vars

(***************************************************************************)
(* verifyAndGetUserId on its own: repeated calls for one platform against  *)
(* one unchanged answer of the provider.                                   *)
(***************************************************************************)
\* The values a field of the provider's body may hold (NoVal: absent).
OAuthFieldValues == UserIds \cup {NoVal, ""}

OAuthBodies ==
    [id : OAuthFieldValues, items0id : OAuthFieldValues,
     data0id : OAuthFieldValues, dataid : OAuthFieldValues]

\* Every answer a provider may give: no answer at all, an HTTP error, a
\* body that is not JSON, or a JSON body.
AllOAuthResponses ==
    {[status |-> st, body |-> EmptyBody] : st \in {"netfail", "okNotJson"} \cup HttpErrors}
    \cup {[status |-> "ok", body |-> b] : b \in OAuthBodies}

OAuthInit ==
    /\ pc = [p \in Procs |-> "idle"]
    /\ \E pf \in AllPlatforms, resp \in AllOAuthResponses :
         loc \in [Procs -> {[platform |-> pf, resp |-> resp, hasClientId |-> c] :
                              c \in BOOLEAN}]
    /\ result = [p \in Procs |-> Invalid(NoVal)]
    /\ calls = [p \in Procs |-> <<>>]
    /\ atoms = {}
    /\ triples = {}
    /\ txs = [t \in TxIds |-> NoTxRecord]
    /\ approvals = [w \in Wallets |-> APPROVAL_TYPE.NONE]
    /\ hook = NoHook
    /\ storage = Absent

\* One call of verifyAndGetUserId runs to its end.
VerifyCall(p) ==
    /\ pc[p] = "idle"
    /\ LET l == loc[p]
           v == verifyAndGetUserId(l.platform, l.hasClientId, l.resp)
       IN  /\ pc' = [pc EXCEPT ![p] = IF v.threw THEN "threw" ELSE "returned"]
           /\ result' = [result EXCEPT ![p] = v]
           /\ calls' = [calls EXCEPT ![p] =
                  IF ClientIdMissing(l.platform, l.hasClientId) THEN <<>> ELSE <<"oauth">>]
    /\ UNCHANGED <<loc, atoms, triples, txs, approvals, hook, storage>>

OAuthNext == \E p \in Procs : VerifyCall(p)

OAuthSpec == OAuthInit /\ [][OAuthNext]_vars

(***************************************************************************)
(* AttestorService.createAttestation: the user's wallet signs.  The class  *)
(* exists in two copies, attestor-core ("core") and attestor-sdk ("sdk").  *)
(***************************************************************************)
Copies == {"core", "sdk"}

ClientWriteKinds == {"approve", "wallet", "triple"}

ClientTxIds == Procs \X ClientWriteKinds

\* The wallet that runs the client.
ClientWallet == WalletOrder[1]

\* DEPOSIT_CONFIG.MIN_DEPOSIT and the fees the proxy reports, in the unit
\* of the costs.
MIN_DEPOSIT == 1

ProxyFees == {1}

\* What the Mastra workflow endpoint may answer: can is the
\* canCreateAttestation field of the data ("absent": not in the data).
MastraResponses ==
    {[status |-> st, can |-> "absent"] : st \in {"netfail", "http500", "okNotJson"}}
    \cup {[status |-> "ok", can |-> c] : c \in {"absent", "false", "true"}}

verify_DefaultTrue(resp) ==
    IF resp.status = "netfail"
    THEN [canCreateAttestation |-> FALSE, error |-> "fetch failed"]
    ELSE IF resp.status = "http500"
    THEN [canCreateAttestation |-> FALSE, error |-> "API error"]
    ELSE IF resp.status = "okNotJson"
    THEN [canCreateAttestation |-> FALSE, error |-> "Unexpected token in JSON"]
    ELSE [canCreateAttestation |-> resp.can # "false", error |-> NoVal]

\* AttestorService.verify: canCreateAttestation is data.canCreateAttestation ?? false;
\* a failed request or an unparsable body is caught.
verify(resp) ==
    IF resp.status = "netfail"
    THEN [canCreateAttestation |-> FALSE, error |-> "fetch failed"]
    ELSE IF resp.status = "http500"
    THEN [canCreateAttestation |-> FALSE, error |-> "API error"]
    ELSE IF resp.status = "okNotJson"
    THEN [canCreateAttestation |-> FALSE, error |-> "Unexpected token in JSON"]
    ELSE [canCreateAttestation |-> resp.can = "true", error |-> NoVal]

ClientInitLoc ==
    [copy |-> NoVal, useProxy |-> FALSE, walletAddress |-> NoVal,
     hasWalletClient |-> FALSE, mastra |-> [status |-> NoVal, can |-> "absent"],
     approval |-> {}, exists |-> FALSE, created |-> FALSE, cur |-> NoVal,
     baseCost |-> 0, fee |-> 0]

ClientNoResult == [success |-> FALSE, txHash |-> NoTx, error |-> NoVal]

ClientInit ==
    /\ pc = [p \in Procs |-> "idle"]
    /\ loc = [p \in Procs |-> ClientInitLoc]
    /\ result = [p \in Procs |-> ClientNoResult]
    /\ calls = [p \in Procs |-> <<>>]
    /\ atoms \in InitialAtoms
    /\ triples = {}
    /\ txs = [t \in ClientTxIds |-> NoTxRecord]
    /\ \E a \in {APPROVAL_TYPE.NONE, APPROVAL_TYPE.DEPOSIT, APPROVAL_TYPE.REDEEM,
                 APPROVAL_TYPE.BOTH} :
         approvals = [w \in Wallets |-> IF w = ClientWallet THEN a ELSE APPROVAL_TYPE.NONE]
    /\ hook = NoHook
    /\ storage = Absent

\* One external call of the client: the operation, the function, the target.
Call(op, fn, to) == [op |-> op, fn |-> fn, to |-> to]

\* The contract that receives the create writes.
Target(l) == IF l.useProxy THEN "proxy" ELSE "multivault"

userAtomId(l) == calculateAtomId(stringToHex(l.walletAddress))

\* The function and the target of the write of kind k.
ClientFn(k) ==
    CASE k = "approve" -> "approve"
      [] k = "wallet"  -> "createAtoms"
      [] k = "triple"  -> "createTriples"

ClientTarget(l, k) == IF k = "approve" THEN "multivault" ELSE Target(l)

\* The transaction of the write of kind k.
ClientWrite(l, k) ==
    [status |-> "pending", call |-> ClientFn(k),
     args |-> CASE k = "approve" -> <<"proxy", APPROVAL_TYPE.DEPOSIT>>
                [] k = "wallet"  -> <<stringToHex(l.walletAddress)>>
                [] k = "triple"  -> <<userAtomId(l), predicateId, objectId>>,
     reason |-> NoVal,
     value |-> IF k = "approve" THEN 0 ELSE l.baseCost + MIN_DEPOSIT + l.fee,
     assets |-> IF k = "approve" THEN 0 ELSE MIN_DEPOSIT,
     to |-> ClientTarget(l, k)]

\* approval >= APPROVAL_TYPE.DEPOSIT
isApproved(approval) == approval >= APPROVAL_TYPE.DEPOSIT

\* The approval types with which MultiVault lets the proxy deposit for the wallet.
PermitsDeposit(approval) == approval \in {APPROVAL_TYPE.DEPOSIT, APPROVAL_TYPE.BOTH}

\* The reasons for which the ledger rejects the call tx of wallet w now
\* ({}: it accepts it).
LedgerRejects(tx, w) ==
    (IF tx.to = "proxy" /\ ~PermitsDeposit(approvals[w])
     THEN {"SenderNotApproved"} ELSE {})
    \cup (IF tx.call = "createAtoms" /\ calculateAtomId(tx.args[1]) \in atoms
          THEN {"AtomExists"} ELSE {})
    \cup (IF tx.call = "createTriples" /\ ~({tx.args[1], tx.args[2], tx.args[3]} \subseteq atoms)
          THEN {"AtomDoesNotExist"} ELSE {})
    \cup (IF tx.call = "createTriples"
             /\ calculateTripleId(tx.args[1], tx.args[2], tx.args[3]) \in triples
          THEN {"TripleExists"} ELSE {})

\* The copy simulates the write of kind k before it sends it.
Simulates(copy, k) ==
    CASE k = "approve" -> FALSE
      [] k = "wallet"  -> copy = "core"
      [] k = "triple"  -> TRUE

ClientReturn(l, r) == [pc |-> "returned", loc |-> l, result |-> r, calls |-> <<>>]

ClientGoto(stage, l, call) == [pc |-> stage, loc |-> l, result |-> ClientNoResult, calls |-> call]

ClientFailure(msg, tx) == [success |-> FALSE, txHash |-> tx, error |-> msg]

\* The awaited reads of createAttestation.
ClientReads == {"c_approvalCheck", "c_calcId", "c_exists", "c_cost", "c_fee"}

\* The cost read that precedes the write of kind k.
CostRead(l, k) ==
    ClientGoto("c_cost", [l EXCEPT !.cur = k, !.fee = 0],
               <<Call("readContract", IF k = "wallet" THEN "getAtomCost" ELSE "getTripleCost",
                      "multivault")>>)

\* The code that runs once the total cost of the current write is known.
AfterCost(l) ==
    IF Simulates(l.copy, l.cur)
    THEN ClientGoto("c_simulate", l,
                    <<Call("simulateContract", ClientFn(l.cur), ClientTarget(l, l.cur))>>)
    ELSE ClientGoto("c_send", l, <<>>)

\* The current write failed (its helper returned success:false or threw).
WriteFailed(l, msg, tx) ==
    CASE l.cur = "approve" -> ClientReturn(l, ClientFailure("Proxy approval failed", NoTx))
      [] l.cur = "wallet"  -> ClientReturn(l, ClientFailure("Failed to create user atom", NoTx))
      [] l.cur = "triple"  -> ClientReturn(l, ClientFailure(msg, tx))

\* The receipt of the current write has status success.
WriteSucceeded(l, tx) ==
    CASE l.cur = "approve" ->
           ClientGoto("c_calcId", [l EXCEPT !.cur = NoVal],
                      <<Call("readContract", "calculateAtomId", "multivault")>>)
      [] l.cur = "wallet" -> CostRead([l EXCEPT !.created = TRUE], "triple")
      [] l.cur = "triple" ->
           ClientReturn(l, [success |-> TRUE, txHash |-> tx, error |-> NoVal])

\* A read throws: where the exception is caught.
ReadThrew(l, stage) ==
    IF stage = "c_approvalCheck"
    THEN ClientGoto("c_send", [l EXCEPT !.cur = "approve"], <<>>)
    ELSE IF stage = "c_fee" \/ (stage = "c_cost" /\ l.copy = "sdk")
    THEN WriteFailed(l, "network error", NoTx)
    ELSE ClientReturn(l, ClientFailure("network error", NoTx))

\* A read returns: the code up to the next await.
ReadReturned(l, stage, fee) ==
    CASE stage = "c_approvalCheck" ->
           LET l2 == [l EXCEPT !.approval = {approvals[l.walletAddress]}]
           IN  IF isApproved(approvals[l.walletAddress])
               THEN ClientGoto("c_calcId", l2,
                               <<Call("readContract", "calculateAtomId", "multivault")>>)
               ELSE ClientGoto("c_send", [l2 EXCEPT !.cur = "approve"], <<>>)
      [] stage = "c_calcId" ->
           ClientGoto("c_exists", l, <<Call("readContract", "isTermCreated", "multivault")>>)
      [] stage = "c_exists" ->
           LET l2 == [l EXCEPT !.exists = isTermCreated(userAtomId(l))]
           IN  IF ~l2.exists THEN CostRead(l2, "wallet") ELSE CostRead(l2, "triple")
      [] stage = "c_cost" ->
           LET l2 == [l EXCEPT !.baseCost =
                          IF l.cur = "wallet" THEN CHOOSE c \in AtomCosts : TRUE
                          ELSE CHOOSE c \in TripleCosts : TRUE]
           IN  IF l.useProxy
               THEN ClientGoto("c_fee", l2, <<Call("readContract", "calculateDepositFee", "proxy"),
                                              Call("readContract", "creationFixedFee", "proxy")>>)
               ELSE AfterCost(l2)
      [] stage = "c_fee" -> AfterCost([l EXCEPT !.fee = fee])

ClientInputs ==
    {[ClientInitLoc EXCEPT !.copy = c, !.useProxy = u, !.walletAddress = ClientWallet,
                           !.hasWalletClient = h] :
        c \in Copies, u \in BOOLEAN, h \in BOOLEAN}

ClientApply(p, o) ==
    /\ pc' = [pc EXCEPT ![p] = o.pc]
    /\ loc' = [loc EXCEPT ![p] = o.loc]
    /\ result' = [result EXCEPT ![p] = o.result]
    /\ calls' = [calls EXCEPT ![p] = @ \o o.calls]

\* createAttestation begins: the verification request is sent to Mastra.
ClientStart(p) ==
    /\ pc[p] = "idle"
    /\ Sequential(p)
    /\ \E l \in ClientInputs :
         ClientApply(p, ClientGoto("c_verify", l, <<Call("fetch", "start-async", "mastra")>>))
    /\ UNCHANGED <<atoms, triples, txs, approvals, hook, storage>>

\* verify returns; then the wallet client is obtained.
ClientVerified(p) ==
    /\ pc[p] = "c_verify"
    /\ \E resp \in MastraResponses :
         LET l == [loc[p] EXCEPT !.mastra = resp]
             verification == verify(resp)
         IN  ClientApply(p,
                IF ~verification.canCreateAttestation
                THEN ClientReturn(l, ClientFailure(
                         IF verification.error # NoVal THEN verification.error
                         ELSE "Verification failed", NoTx))
                ELSE IF ~l.hasWalletClient
                THEN ClientReturn(l, ClientFailure("No wallet client available", NoTx))
                ELSE IF l.useProxy
                THEN ClientGoto("c_approvalCheck", l,
                                <<Call("readContract", "approvals", "multivault")>>)
                ELSE ClientGoto("c_calcId", l,
                                <<Call("readContract", "calculateAtomId", "multivault")>>))
    /\ UNCHANGED <<atoms, triples, txs, approvals, hook, storage>>

\* An awaited read returns or throws.
ClientRead(p) ==
    /\ pc[p] \in ClientReads
    /\ \/ \E fee \in ProxyFees : ClientApply(p, ReadReturned(loc[p], pc[p], fee))
       \/ ClientApply(p, ReadThrew(loc[p], pc[p]))
    /\ UNCHANGED <<atoms, triples, txs, approvals, hook, storage>>

\* simulateContract returns, or throws when the ledger would reject the call.
ClientSimulate(p) ==
    /\ pc[p] = "c_simulate"
    /\ LET l == loc[p]
           rejects == LedgerRejects(ClientWrite(l, l.cur), l.walletAddress)
       IN  \/ /\ rejects = {}
              /\ ClientApply(p, ClientGoto("c_send", l, <<>>))
           \/ \E msg \in rejects \cup {"insufficient funds"} :
                ClientApply(p, WriteFailed(l, msg, NoTx))
    /\ UNCHANGED <<atoms, triples, txs, approvals, hook, storage>>

\* writeContract: the user signs and the transaction is sent, or refuses.
ClientSubmit(p) ==
    /\ pc[p] = "c_send"
    /\ LET l == loc[p]
       IN  \/ /\ txs' = [txs EXCEPT ![<<p, l.cur>>] = ClientWrite(l, l.cur)]
              /\ ClientApply(p, ClientGoto("c_wait", l,
                     <<Call("writeContract", ClientFn(l.cur), ClientTarget(l, l.cur))>>))
           \/ /\ txs' = txs
              /\ ClientApply(p, WriteFailed(l, "User rejected the request", NoTx))
    /\ UNCHANGED <<atoms, triples, approvals, hook, storage>>

\* The ledger mines a transaction of the client.
ClientMine(t) ==
    /\ txs[t].status = "pending"
    /\ LET tx == txs[t]
           w == loc[t[1]].walletAddress
           rejects == LedgerRejects(tx, w)
       IN  \E o \in (IF rejects = {}
                     THEN {[status |-> "success", reason |-> NoVal],
                           [status |-> "reverted", reason |-> "InsufficientBalance"]}
                     ELSE {[status |-> "reverted", reason |-> r] : r \in rejects}) :
             /\ txs' = [txs EXCEPT ![t].status = o.status, ![t].reason = o.reason]
             /\ atoms' = IF o.status = "success" /\ tx.call = "createAtoms"
                         THEN atoms \cup {calculateAtomId(tx.args[1])} ELSE atoms
             /\ triples' = IF o.status = "success" /\ tx.call = "createTriples"
                           THEN triples \cup {calculateTripleId(tx.args[1], tx.args[2],
                                                               tx.args[3])}
                           ELSE triples
             /\ approvals' = IF o.status = "success" /\ tx.call = "approve"
                             THEN [approvals EXCEPT ![w] = tx.args[2]] ELSE approvals
    /\ UNCHANGED <<pc, loc, result, calls, hook, storage>>

\* waitForTransactionReceipt returns the receipt, or throws.
ClientReceipt(p) ==
    /\ pc[p] = "c_wait"
    /\ LET l == loc[p]
           t == <<p, l.cur>>
       IN  \/ /\ txs[t].status = "success"
              /\ ClientApply(p, WriteSucceeded(l, t))
           \/ /\ txs[t].status = "reverted"
              /\ ClientApply(p, WriteFailed(l, "Transaction reverted on-chain", t))
           \/ ClientApply(p, WriteFailed(l, "receipt timeout", NoTx))
    /\ UNCHANGED <<atoms, triples, txs, approvals, hook, storage>>

ClientNext ==
    \/ \E p \in Procs : ClientStart(p)
    \/ \E p \in Procs : ClientVerified(p)
    \/ \E p \in Procs : ClientRead(p)
    \/ \E p \in Procs : ClientSimulate(p)
    \/ \E p \in Procs : ClientSubmit(p)
    \/ \E t \in ClientTxIds : ClientMine(t)
    \/ \E p \in Procs : ClientReceipt(p)

ClientSpec == ClientInit /\ [][ClientNext]_vars

(***************************************************************************)
(* The React hooks: useVerification (over BotVerifierService) and          *)
(* useAttestation (over AttestorService).  One hook instance is mounted;   *)
(* its function is called up to NumInvocations times, the calls may        *)
(* overlap, and reset() and a remount may come in between.                 *)
(***************************************************************************)
MaxResets == 1

MaxMounts == 1

HookKinds == {"useVerification", "useAttestation"}

\* The wallet address given to the hook.
HookWallet == WalletOrder[1]

\* String.prototype.toLowerCase on the address texts; undefined?.toLowerCase()
\* is undefined.
toLowerCase(w) ==
    CASE w = "0xA" -> "0xa"
      [] w = "0xB" -> "0xb"
      [] OTHER -> w

\* The spellings of one address.
Spellings(w) == {w, toLowerCase(w)}

\* A JSON object under the key: its walletAddress field, and its links
\* field when it has one.
Stored(w, hasLinks, links) ==
    [kind |-> "object", walletAddress |-> w, hasLinks |-> hasLinks, links |-> links]

\* What the key may hold before the hook is used: nothing, text that is not
\* JSON, a record of this wallet or of another one, or an object without a
\* links field.
StoredBefore ==
    {Absent, [Absent EXCEPT !.kind = "notJson"],
     Stored(HookWallet, TRUE, {}), Stored(WalletOrder[2], TRUE, {}),
     Stored(HookWallet, FALSE, {})}

\* The effect that loads the state from storage: JSON.parse may throw, which
\* is ignored.
Load(st, wallet) ==
    /\ st.kind = "object"
    /\ toLowerCase(st.walletAddress) = toLowerCase(wallet)

\* The state of a hook once its effects have run after the mount.
Mounted(kind, wallet, key, st, resets, mounts) ==
    [kind |-> kind, walletAddress |-> wallet, storageKey |-> key,
     isDone |-> key /\ Load(st, wallet), can |-> wallet # NoVal,
     inProgress |-> FALSE, error |-> NoVal, resets |-> resets, mounts |-> mounts]

NoServiceResult == [success |-> FALSE, error |-> NoVal, txHash |-> NoVal, threw |-> FALSE]

\* What the awaited service call may do: return a success, return a
\* failure, or throw.
ServiceResults ==
    {[NoServiceResult EXCEPT !.success = TRUE, !.txHash = "0xtx"],
     [NoServiceResult EXCEPT !.error = "Verification failed"],
     [NoServiceResult EXCEPT !.error = "network error", !.threw = TRUE]}

HookInitLoc ==
    [platform |-> NoVal, serviceResult |-> NoServiceResult, resets |-> 0, mounts |-> 0]

HookResult(success, error, txHash) == [success |-> success, error |-> error, txHash |-> txHash]

HookInit ==
    /\ pc = [p \in Procs |-> "idle"]
    /\ loc = [p \in Procs |-> HookInitLoc]
    /\ result = [p \in Procs |-> HookResult(FALSE, NoVal, NoVal)]
    /\ calls = [p \in Procs |-> <<>>]
    /\ atoms = {}
    /\ triples = {}
    /\ txs = [t \in TxIds |-> NoTxRecord]
    /\ approvals = [w \in Wallets |-> APPROVAL_TYPE.NONE]
    /\ storage \in StoredBefore
    /\ \E kind \in HookKinds, wallet \in {HookWallet, NoVal}, key \in BOOLEAN :
         hook = Mounted(kind, wallet, key, storage, 0, 0)

\* The triple AttestorService creates for the wallet.
userTriple(w) == calculateTripleId(calculateAtomId(stringToHex(w)), predicateId, objectId)

\* useVerification: data = stored ? JSON.parse(stored) : {walletAddress, links: {}};
\* data.links[platform] = ...; setItem.  JSON.parse throws on text that is
\* not JSON and the assignment throws when data has no links.
SaveLink(st, wallet, platform) ==
    LET data == IF st.kind = "absent" THEN Stored(wallet, TRUE, {}) ELSE st
    IN  IF st.kind = "notJson"
        THEN [threw |-> TRUE, error |-> "Unexpected token in JSON", storage |-> st]
        ELSE IF ~data.hasLinks
        THEN [threw |-> TRUE, error |-> "Cannot set properties of undefined", storage |-> st]
        ELSE [threw |-> FALSE, error |-> NoVal,
              storage |-> [data EXCEPT !.links = @ \cup {platform}]]

\* useAttestation: setItem(key, JSON.stringify({txHash, walletAddress, createdAt})).
SaveAttestation(wallet) == Stored(wallet, FALSE, {})

\* The code of the hook function that follows the awaited service call,
\* with its catch; r is what the call returned or threw.
AfterService(h, st, r, l) ==
    IF r.threw
    THEN [hook |-> [h EXCEPT !.error = r.error], storage |-> st,
          result |-> HookResult(FALSE, r.error, NoVal)]
    ELSE IF ~r.success
    THEN [hook |-> [h EXCEPT !.error = r.error], storage |-> st,
          result |-> HookResult(FALSE, r.error, NoVal)]
    ELSE IF h.kind = "useAttestation"
    THEN [hook |-> [h EXCEPT !.isDone = TRUE],
          storage |-> IF h.storageKey THEN SaveAttestation(h.walletAddress) ELSE st,
          result |-> HookResult(TRUE, NoVal, r.txHash)]
    ELSE IF ~h.storageKey
    THEN [hook |-> h, storage |-> st, result |-> HookResult(TRUE, NoVal, r.txHash)]
    ELSE LET saved == SaveLink(st, h.walletAddress, l.platform)
         IN  IF saved.threw
             THEN [hook |-> [h EXCEPT !.error = saved.error], storage |-> st,
                   result |-> HookResult(FALSE, saved.error, NoVal)]
             ELSE [hook |-> h, storage |-> saved.storage,
                   result |-> HookResult(TRUE, NoVal, r.txHash)]

\* linkSocialAccount / createAttestation of the hook is called and runs to
\* its await (or to an early return).
HookCall(p) ==
    /\ pc[p] = "idle"
    /\ \E pf \in PipelinePlatforms :
         IF hook.walletAddress = NoVal
         THEN /\ pc' = [pc EXCEPT ![p] = "returned"]
              /\ result' = [result EXCEPT ![p] =
                     HookResult(FALSE, "No wallet address provided", NoVal)]
              /\ UNCHANGED <<loc, calls, hook>>
         ELSE IF hook.kind = "useAttestation" /\ hook.isDone
         THEN /\ pc' = [pc EXCEPT ![p] = "returned"]
              /\ result' = [result EXCEPT ![p] = HookResult(FALSE, "Already attested", NoVal)]
              /\ UNCHANGED <<loc, calls, hook>>
         ELSE /\ pc' = [pc EXCEPT ![p] = "h_service"]
              /\ loc' = [loc EXCEPT ![p] =
                     [HookInitLoc EXCEPT !.platform = pf, !.resets = hook.resets,
                                         !.mounts = hook.mounts]]
              /\ calls' = [calls EXCEPT ![p] = <<"service">>]
              /\ hook' = [hook EXCEPT !.inProgress = TRUE, !.error = NoVal]
              /\ result' = result
    /\ UNCHANGED <<atoms, triples, txs, approvals, storage>>

\* The awaited service call returns or throws; the rest of the hook
\* function runs, its finally block last.  AttestorService succeeds only by
\* creating the triple, which the ledger holds at most once.
ServiceReturn(p) ==
    /\ pc[p] = "h_service"
    /\ \E r \in ServiceResults :
         LET o == AfterService(hook, storage, r, loc[p])
             creates == r.success /\ hook.kind = "useAttestation"
         IN  /\ creates => userTriple(hook.walletAddress) \notin triples
             /\ triples' = IF creates THEN triples \cup {userTriple(hook.walletAddress)}
                           ELSE triples
             /\ loc' = [loc EXCEPT ![p].serviceResult = r]
             /\ result' = [result EXCEPT ![p] = o.result]
             /\ storage' = o.storage
             /\ hook' = [o.hook EXCEPT !.inProgress = FALSE]
    /\ pc' = [pc EXCEPT ![p] = "returned"]
    /\ UNCHANGED <<calls, atoms, txs, approvals>>

\* reset() of the hook.
HookReset ==
    /\ hook.resets < MaxResets
    /\ hook' = [hook EXCEPT !.isDone = FALSE, !.error = NoVal, !.resets = @ + 1]
    /\ storage' = IF hook.storageKey THEN Absent ELSE storage
    /\ UNCHANGED <<pc, loc, result, calls, atoms, triples, txs, approvals>>

\* The component is mounted afresh with the same storage key and the same
\* wallet (in either spelling) while no call is in flight.
HookMount ==
    /\ hook.mounts < MaxMounts
    /\ \A p \in Procs : pc[p] # "h_service"
    /\ \E w \in Spellings(hook.walletAddress) :
         hook' = Mounted(hook.kind, w, hook.storageKey, storage, hook.resets, hook.mounts + 1)
    /\ UNCHANGED <<pc, loc, result, calls, atoms, triples, txs, approvals, storage>>

HookNext ==
    \/ \E p \in Procs : HookCall(p)
    \/ \E p \in Procs : ServiceReturn(p)
    \/ HookReset
    \/ HookMount

HookSpec == HookInit /\ [][HookNext]_vars

(***************************************************************************)
(* Properties.                                                             *)
(***************************************************************************)
\* The invocation has begun and its locals are still in the state.
Live(p) == pc[p] \notin {"idle", "archived"}

\* The invocation is one of the claim pipeline (workflow or service).
Pipeline(p) == loc[p].variant \in Variants

Tx(p, k) == txs[<<p, k>>]

EdgeId(l) == calculateTripleId(TripleArgs(l)[1], TripleArgs(l)[2], TripleArgs(l)[3])

Count(seq, name) == Cardinality({i \in DOMAIN seq : seq[i] = name})

\* The error texts that report a failure of the environment: a refused
\* token, a missing or bad key, a failed pin, a call that threw.
EnvironmentFailures ==
    {"fetch failed", "API returned status", "Could not extract user ID",
     "Twitch Client ID required", "BOT_PRIVATE_KEY not configured on server",
     "invalid private key", "IPFS pinning failed", "IPFS pinning error",
     "No IPFS URI returned from pinThing", "network error", "insufficient funds",
     "receipt timeout", "AtomExists", "TripleExists",
     "account is already linked to another wallet"}

\* C1: in every variant, a createTriples write is only ever submitted with
\* endpoint atoms that exist on the ledger, and for each endpoint the
\* invocation either read isTermCreated = true or had its own createAtoms
\* confirmed with a success receipt.
C1_EdgeOnlyBetweenExistingNodes ==
    /\ \A t \in TxIds :
         txs[t].call = "createTriples" =>
             {txs[t].args[1], txs[t].args[2], txs[t].args[3]} \subseteq atoms
    /\ \A p \in Procs :
         (Live(p) /\ Tx(p, "triple").status # "none") =>
             /\ Tx(p, "triple").args = TripleArgs(loc[p])
             /\ \A k \in AtomKinds :
                  \/ loc[p].exists[k]
                  \/ loc[p].created[k] /\ Tx(p, k).status = "success"

\* C1 witness: an edge write is pending whose wallet node was found existing
\* and whose social node was created by this invocation.
C1_Witness ==
    \E p \in Procs :
        /\ Live(p) /\ Tx(p, "triple").status = "pending"
        /\ loc[p].exists["wallet"] /\ loc[p].created["social"]

\* C2: when verification yields valid:false or no userId, the pipeline
\* returns success:false and has issued no pin call and no ledger call.
C2_InvalidTokenNoLedgerCall ==
    \A p \in Procs :
        (Live(p) /\ Pipeline(p) /\ loc[p].userId = NoVal) =>
            /\ pc[p] \in {"verify", "returned"}
            /\ \A i \in DOMAIN calls[p] : calls[p][i] = "oauth"
            /\ \A k \in WriteKinds : Tx(p, k).status = "none"
            /\ pc[p] = "returned" => ~result[p].success

\* C2 witness: the provider was asked and the pipeline returned a failure
\* without a user id.
C2_Witness ==
    \E p \in Procs :
        /\ Pipeline(p) /\ pc[p] = "returned" /\ loc[p].userId = NoVal
        /\ calls[p] = <<"oauth">>
        /\ result[p].error.text = "API returned status"

\* The run returned, and neither the environment failed it nor did any of
\* its writes revert or stay unconfirmed.
CleanRun(p) ==
    /\ pc[p] = "returned" /\ Pipeline(p)
    /\ loc[p].userId # NoVal
    /\ result[p].error.text \notin EnvironmentFailures
    /\ \A k \in WriteKinds : Tx(p, k).status \in {"none", "success"}

\* C3: in a run with a valid token in which no call fails and every
\* submitted write confirms with status success, a node is created iff its
\* existence check returned false, its *Created flag says the same, and
\* exactly one createTriples is submitted, with success:true.
C3_CreatesExactlyTheMissingNodes ==
    \A p \in Procs :
        CleanRun(p) =>
            /\ result[p].success
            /\ result[p].reported = AtomKinds
            /\ \A k \in AtomKinds :
                 /\ (Tx(p, k).status = "success") <=> ~loc[p].exists[k]
                 /\ (k \in result[p].created) <=> ~loc[p].exists[k]
            /\ Count(calls[p], "createAtoms")
                   = Cardinality({k \in AtomKinds : ~loc[p].exists[k]})
            /\ Count(calls[p], "createTriples") = 1
            /\ Tx(p, "triple").status = "success"
            /\ result[p].txHash = <<p, "triple">>

\* C3 witness (scenario B): a clean run that found the wallet and predicate
\* nodes and created the social node alone.
C3_Witness ==
    \E p \in Procs :
        /\ CleanRun(p)
        /\ loc[p].exists["wallet"] /\ loc[p].exists["predicate"]
        /\ result[p].created = {"social"}
        /\ Count(calls[p], "createAtoms") = 1

\* Scenario A as well: a clean run that created all three nodes.
C3_WitnessFresh ==
    \E p \in Procs :
        /\ CleanRun(p)
        /\ result[p].created = AtomKinds
        /\ Count(calls[p], "createAtoms") = 3

\* The pipeline stands before its edge write, having found all three nodes,
\* while the claim edge is on the ledger.
ScenarioD(p) ==
    /\ Pipeline(p) /\ pc[p] = "send" /\ loc[p].cur = "triple"
    /\ \A k \in AtomKinds : loc[p].exists[k]
    /\ EdgeId(loc[p]) \in triples

\* C4 (as claimed): with all three nodes and the claim edge existing, the
\* pipeline submits no write and returns success with an already-linked
\* indication.
C4_Original ==
    [][\A p \in Procs :
          ScenarioD(p) =>
              /\ txs'[<<p, "triple">>].status = "none"
              /\ pc'[p] # pc[p] =>
                    /\ pc'[p] = "returned"
                    /\ result'[p].success
                    /\ result'[p].tripleAlreadyExists]_vars

\* The ledger refused the edge write of p because the edge exists.
EdgeRefusedAsExisting(p) ==
    \/ Tx(p, "triple").reason = "TripleExists" /\ result[p].error.tx = <<p, "triple">>
    \/ result[p].error.text = "TripleExists"

\* C5 (as claimed): when the ledger rejects the edge write because the
\* edge exists, the outcome is marked as already linked.
C5_Original ==
    \A p \in Procs :
        (pc[p] = "returned" /\ Pipeline(p) /\ EdgeRefusedAsExisting(p)) =>
            \/ result[p].success
            \/ result[p].tripleAlreadyExists
            \/ result[p].error.text = "account is already linked to another wallet"

\* q returned success for the wallet and platform that p is now run with.
SucceededBefore(q, p) ==
    /\ q # p /\ pc[q] = "archived" /\ result[q].success
    /\ Live(p) /\ Pipeline(p)
    /\ loc[q].platform # NoVal
    /\ loc[q].walletAddress = loc[p].walletAddress
    /\ loc[q].platform = loc[p].platform

\* C6: an invocation that follows a successful one for the same wallet and
\* platform submits no createAtoms for the wallet node nor for the
\* predicate node, and reports neither as created.
C6_NoDuplicateWalletOrPredicate ==
    \A p, q \in Procs :
        SucceededBefore(q, p) =>
            /\ Tx(p, "wallet").status = "none"
            /\ Tx(p, "predicate").status = "none"
            /\ ~loc[p].created["wallet"] /\ ~loc[p].created["predicate"]
            /\ result[p].created \cap {"wallet", "predicate"} = {}

\* C6 witness: the second invocation for the same wallet and platform has
\* succeeded, having created a social node only.
C6_Witness ==
    \E p, q \in Procs :
        /\ SucceededBefore(q, p)
        /\ pc[p] = "returned" /\ result[p].success
        /\ result[p].created = {"social"}

\* The wait for the edge write returned a receipt that is not a success.
EdgeReceiptFailed(p) ==
    /\ pc[p] = "returned" /\ Pipeline(p)
    /\ Tx(p, "triple").status = "reverted"
    /\ result[p].error.text # "receipt timeout"

\* C7: when the createTriples receipt is not a success, the pipeline
\* returns success:false, the error names that transaction, and each
\* *Created flag is true exactly for the nodes whose createAtoms this
\* invocation saw confirmed.
C7_EdgeFailureReportsCreatedNodes ==
    \A p \in Procs :
        EdgeReceiptFailed(p) =>
            /\ ~result[p].success
            /\ result[p].error.tx = <<p, "triple">>
            /\ result[p].reported = AtomKinds
            /\ \A k \in AtomKinds :
                 (k \in result[p].created) <=> (Tx(p, k).status = "success")

\* C7 witness: the edge write reverted after this invocation had created
\* the social node and found the wallet node.
C7_Witness ==
    \E p \in Procs :
        /\ EdgeReceiptFailed(p)
        /\ Tx(p, "social").status = "success" /\ Tx(p, "wallet").status = "none"
        /\ result[p].created = {"social"}

\* The texts of the errors a write submission or a confirmation wait throws.
ThrownByWrites == {"insufficient funds", "receipt timeout", "AtomExists", "TripleExists"}

\* C8 (as claimed): when a submission or a wait throws after a node was
\* created in this invocation, the failure result still names the nodes
\* that were newly created.
C8_Original ==
    \A p \in Procs :
        (/\ pc[p] = "returned" /\ Pipeline(p)
         /\ result[p].error.text \in ThrownByWrites
                \cup {"account is already linked to another wallet"}
         /\ \E k \in AtomKinds : loc[p].created[k]) =>
            result[p].created = {k \in AtomKinds : loc[p].created[k]}

\* C9 (as claimed): when the receipt of a createAtoms is not a success, the
\* pipeline returns success:false and reports as created exactly the nodes
\* confirmed earlier in this invocation.
C9_Original ==
    \A p \in Procs : \A k \in AtomKinds :
        (/\ pc[p] = "returned" /\ Pipeline(p)
         /\ Tx(p, k).status = "reverted"
         /\ result[p].error.tx = <<p, k>>) =>
            /\ ~result[p].success
            /\ result[p].created = {j \in AtomKinds : loc[p].created[j]}

\* C10: every invocation that ends has returned a structured result with a
\* boolean success field; no failure escapes as an exception.
C10_AlwaysReturnsAResult ==
    \A p \in Procs :
        /\ pc[p] # "threw"
        /\ Ended(p) => result[p].success \in BOOLEAN
        /\ (Ended(p) /\ ~result[p].success) => result[p].error.text # NoVal

\* C10 witness: a wait for a receipt threw after a node had been created,
\* and the invocation returned a failure result.
C10_Witness ==
    \E p \in Procs :
        /\ pc[p] = "returned" /\ Pipeline(p)
        /\ result[p].error.text = "receipt timeout"
        /\ \E k \in AtomKinds : loc[p].created[k]

\* C11: the pipeline returns success:true only when the receipt of its
\* createTriples transaction has status success (so the claim edge is on
\* the ledger), and the txHash it returns is the hash of that transaction.
C11_SuccessMeansEdgeConfirmed ==
    \A p \in Procs :
        (pc[p] = "returned" /\ Pipeline(p) /\ result[p].success) =>
            /\ Tx(p, "triple").status = "success"
            /\ Tx(p, "triple").call = "createTriples"
            /\ result[p].txHash = <<p, "triple">>
            /\ calculateTripleId(Tx(p, "triple").args[1], Tx(p, "triple").args[2],
                                 Tx(p, "triple").args[3]) \in triples

\* C11 witness: a run that found all three nodes returned success with the
\* hash of its confirmed edge write.
C11_Witness ==
    \E p \in Procs :
        /\ pc[p] = "returned" /\ Pipeline(p) /\ result[p].success
        /\ \A k \in AtomKinds : loc[p].exists[k]
        /\ result[p].txHash = <<p, "triple">>
        /\ Tx(p, "triple").status = "success"

\* The workflow input lacks walletAddress, platform or oauthToken.
InputMissing(p) ==
    /\ Live(p) /\ loc[p].variant = "workflow"
    /\ NoVal \in {loc[p].walletAddress, loc[p].platform, loc[p].oauthToken}

\* C14: when walletAddress, platform or oauthToken is missing from the
\* workflow input, the pipeline returns success:false with an error that
\* names a field that is missing, and issues no OAuth request, no pin and
\* no ledger call.
C14_MissingInputFailsFast ==
    \A p \in Procs :
        InputMissing(p) =>
            /\ pc[p] = "returned"
            /\ ~result[p].success
            /\ calls[p] = <<>>
            /\ \A k \in WriteKinds : Tx(p, k).status = "none"
            /\ \/ result[p].error.text = "walletAddress is required"
                    /\ loc[p].walletAddress = NoVal
               \/ result[p].error.text = "platform is required"
                    /\ loc[p].platform = NoVal
               \/ result[p].error.text = "oauthToken is required"
                    /\ loc[p].oauthToken = NoVal

\* C14 witness: the workflow was run with a wallet and a platform but no
\* token, and returned the error naming oauthToken.
C14_Witness ==
    \E p \in Procs :
        /\ InputMissing(p)
        /\ loc[p].walletAddress # NoVal /\ loc[p].platform # NoVal
        /\ pc[p] = "returned"
        /\ result[p].error.text = "oauthToken is required"

\* The messages of the Errors pinToIPFS throws.
PinErrors ==
    {"fetch failed", "IPFS pinning failed", "IPFS pinning error",
     "No IPFS URI returned from pinThing"}

\* The pinning call of p was answered without a URI.
PinFailed(p) ==
    /\ Live(p) /\ Pipeline(p)
    /\ Count(calls[p], "pinThing") > 0 /\ pc[p] # "pin"
    /\ loc[p].socialIpfsUri = NoVal

\* C15: when the pinning call answers with a non-success status, an errors
\* payload or no uri, the pipeline returns success:false with the pin
\* error as its message, and issues no ledger read and no ledger write.
C15_PinFailureStopsThePipeline ==
    \A p \in Procs :
        PinFailed(p) =>
            /\ pc[p] = "returned"
            /\ ~result[p].success
            /\ result[p].error.text \in PinErrors
            /\ calls[p] = <<"oauth", "pinThing">>
            /\ \A k \in WriteKinds : Tx(p, k).status = "none"

\* C15 witness: the pinning call answered ok without a uri and the
\* pipeline returned that error.
C15_Witness ==
    \E p \in Procs :
        /\ PinFailed(p) /\ pc[p] = "returned"
        /\ result[p].error.text = "No IPFS URI returned from pinThing"

\* The payload of the node of kind k, from the inputs and the pinned URI.
Payload(l, k) ==
    CASE k = "wallet"    -> stringToHex(l.walletAddress)
      [] k = "predicate" -> stringToHex(PREDICATE_NAMES[l.platform])
      [] k = "social"    -> stringToHex(l.socialIpfsUri)

\* C16: the createTriples write passes (id of the wallet-address payload,
\* id of the platform's predicate text, id of the pinned-URI payload); each
\* createAtoms submits the payload of its node; the exists flag of a node
\* is the isTermCreated answer for the id of that same payload, and a
\* node's createAtoms is submitted only when that flag is false.
C16_IdsAndPayloadsLineUp ==
    [][\A p \in Procs :
          (pc'[p] \notin {"idle", "archived"} /\ loc'[p].variant \in Variants) =>
              /\ txs'[<<p, "triple">>].status # "none" =>
                    txs'[<<p, "triple">>].args =
                        <<calculateAtomId(Payload(loc'[p], "wallet")),
                          calculateAtomId(Payload(loc'[p], "predicate")),
                          calculateAtomId(Payload(loc'[p], "social"))>>
              /\ \A k \in AtomKinds :
                    /\ txs'[<<p, k>>].status # "none" =>
                          txs'[<<p, k>>].args = <<Payload(loc'[p], k)>>
                    /\ (pc[p] = "exists" /\ k \in loc[p].pendingReads
                          /\ k \notin loc'[p].pendingReads) =>
                          loc'[p].exists[k] =
                              (calculateAtomId(Payload(loc[p], k)) \in atoms \cup triples)
                    /\ (txs[<<p, k>>].status = "none" /\ txs'[<<p, k>>].status # "none") =>
                          ~loc[p].exists[k]]_vars

\* C16 witness: an edge write is submitted by a run that created its
\* predicate node and found its wallet node.
C16_Witness ==
    \E p \in Procs :
        /\ Live(p) /\ Pipeline(p)
        /\ Tx(p, "triple").status # "none"
        /\ Tx(p, "predicate").status = "success" /\ loc[p].exists["wallet"]

\* C17: an invocation reads the atom cost and the triple cost once each;
\* each createAtoms carries value and assets of that atom cost plus the
\* fixed atom deposit, and the createTriples carries value and assets of
\* that triple cost plus the fixed triple surcharge.
C17_DepositsFollowTheCostsRead ==
    \A p \in Procs :
        (Live(p) /\ Pipeline(p)) =>
            /\ Count(calls[p], "getAtomCost") <= 1
            /\ Count(calls[p], "getTripleCost") <= 1
            /\ \A k \in WriteKinds :
                 Tx(p, k).status # "none" =>
                     /\ Count(calls[p], "getAtomCost") = 1
                     /\ Count(calls[p], "getTripleCost") = 1
                     /\ loc[p].atomCost \in AtomCosts /\ loc[p].tripleCost \in TripleCosts
                     /\ Tx(p, k).value =
                            IF k = "triple"
                            THEN loc[p].tripleCost + BOT_DEPOSIT_CONFIG.TRIPLE_EXTRA
                            ELSE loc[p].atomCost + BOT_DEPOSIT_CONFIG.ATOM_DEPOSIT
                     /\ Tx(p, k).assets = Tx(p, k).value

\* C17 witness: a run has sent two createAtoms and its createTriples, all
\* carrying the costs it read plus the deposits.
C17_Witness ==
    \E p \in Procs :
        /\ Live(p) /\ Pipeline(p)
        /\ Tx(p, "wallet").value = 7 /\ Tx(p, "social").value = 7
        /\ Tx(p, "triple").value = 8 /\ Tx(p, "triple").assets = 8

\* The call of p sent its request to the provider.
Requested(p) == calls[p] = <<"oauth">>

\* C12: for every platform, when the provider answers with a non-success
\* HTTP status or the request itself fails, verifyAndGetUserId returns
\* valid:false with an error and no userId, and does not throw.
C12_ProviderFailureIsInvalidNotThrown ==
    \A p \in Procs :
        (Ended(p) /\ Requested(p)
           /\ loc[p].resp.status \in {"netfail", "http401", "http403", "http500"}) =>
            /\ pc[p] = "returned"
            /\ ~result[p].valid
            /\ result[p].error # NoVal
            /\ result[p].userId = NoVal

\* C12 witness: the request of a youtube verification failed on the network
\* and the call returned invalid with the error's message.
C12_Witness ==
    \E p \in Procs :
        /\ pc[p] = "returned" /\ Requested(p)
        /\ loc[p].platform = "youtube" /\ loc[p].resp.status = "netfail"
        /\ ~result[p].valid /\ result[p].error = "fetch failed"

\* The field of the body that holds the user id on each platform.
PlatformField(platform, body) ==
    CASE platform = "discord" -> body.id
      [] platform = "youtube" -> body.items0id
      [] platform = "spotify" -> body.id
      [] platform = "twitch"  -> body.data0id
      [] platform = "twitter" -> body.dataid

\* C13: verifyAndGetUserId returns valid:true only with a non-empty userId
\* that is the platform's fixed field of the body, returns valid:false when
\* that field is absent, and repeated calls for the same platform and the
\* same answer return the same result.
C13_UserIdIsThePlatformField ==
    /\ \A p \in Procs :
         pc[p] = "returned" =>
             LET field == PlatformField(loc[p].platform, loc[p].resp.body)
             IN  /\ result[p].valid =>
                       /\ Requested(p) /\ loc[p].resp.status = "ok"
                       /\ result[p].userId \notin {NoVal, ""}
                       /\ result[p].userId = field
                 /\ (Requested(p) /\ loc[p].resp.status = "ok" /\ field \in {NoVal, ""})
                       => ~result[p].valid
                 /\ (Requested(p) /\ loc[p].resp.status = "ok" /\ field \notin {NoVal, ""})
                       => result[p].valid
    /\ \A p, q \in Procs :
         (pc[p] = "returned" /\ pc[q] = "returned" /\ Requested(p) /\ Requested(q)) =>
             result[p] = result[q]

\* C13 witness: two calls for twitch against one body whose data[0].id is
\* set and whose top-level id is absent both returned that id.
C13_Witness ==
    \E p, q \in Procs :
        /\ p # q /\ pc[p] = "returned" /\ pc[q] = "returned"
        /\ loc[p].platform = "twitch"
        /\ loc[p].resp.body.id = NoVal /\ loc[p].resp.body.data0id \in UserIds
        /\ result[p].valid /\ result[q].valid
        /\ result[p].userId = loc[p].resp.body.data0id
        /\ result[q].userId = result[p].userId

\* The invocation of the client has sent a transaction to the wallet or
\* has one on the ledger.
ClientWrote(p) ==
    \/ \E k \in ClientWriteKinds : txs[<<p, k>>].status # "none"
    \/ \E i \in DOMAIN calls[p] : calls[p][i].op = "writeContract"

C19_Original ==
    \A p \in Procs :
        (pc[p] # "idle" /\ loc[p].useProxy) =>
            /\ \A k \in {"wallet", "triple"} :
                 (txs[<<p, k>>].status # "none" /\ txs[<<p, k>>].to = "proxy") =>
                     \/ /\ loc[p].approval # {}
                        /\ loc[p].approval \subseteq {APPROVAL_TYPE.DEPOSIT, APPROVAL_TYPE.BOTH}
                     \/ txs[<<p, "approve">>].status = "success"
            /\ (pc[p] = "returned" /\ result[p].error = "Proxy approval failed") =>
                 \A k \in {"wallet", "triple"} : txs[<<p, k>>].status = "none"

\* C20 (as claimed): every transaction AttestorService sends (approve,
\* createAtoms, createTriples, direct or through the proxy) is preceded in
\* the same invocation by a simulation of that same call.
C20_Original ==
    \A p \in Procs : \A k \in ClientWriteKinds :
        txs[<<p, k>>].status # "none" =>
            \E i, j \in DOMAIN calls[p] :
                /\ i < j
                /\ calls[p][i] = Call("simulateContract", txs[<<p, k>>].call, txs[<<p, k>>].to)
                /\ calls[p][j] = Call("writeContract", txs[<<p, k>>].call, txs[<<p, k>>].to)

\* The threshold of an attestor invocation: the configured one, or 5.
RequiredCount(l) == IF l.threshold = {} THEN {5} ELSE l.threshold

\* The invocation of the attestor has issued a ledger read or write.
TouchedLedger(p) ==
    \/ \E i \in DOMAIN calls[p] : calls[p][i] # "oauth"
    \/ \E k \in WriteKinds : Tx(p, k).status # "none"

\* C21: createAttestation performs no ledger read or write unless the
\* number of platforms whose supplied token verified is at least the
\* configured threshold (5 when none is configured); below the threshold it
\* returns success:false with the verified map and count, and a platform
\* without a token is not verified.
C21_ThresholdGatesTheLedger ==
    \A p \in Procs :
        (Live(p) /\ loc[p].variant = "attestor" /\ pc[p] # "a_verify") =>
            /\ loc[p].verified \subseteq loc[p].tokens
            /\ TouchedLedger(p) =>
                  \A n \in RequiredCount(loc[p]) : Cardinality(loc[p].verified) >= n
            /\ (\E n \in RequiredCount(loc[p]) : Cardinality(loc[p].verified) < n) =>
                  /\ pc[p] = "returned"
                  /\ ~result[p].success
                  /\ result[p].verified = loc[p].verified
                  /\ ~TouchedLedger(p)

\* C21 witness: with no threshold configured and four of five supplied
\* tokens verified, the attestation was refused.
C21_Witness ==
    \E p \in Procs :
        /\ loc[p].variant = "attestor" /\ pc[p] = "returned"
        /\ loc[p].threshold = {} /\ loc[p].tokens = AllPlatforms
        /\ Cardinality(result[p].verified) = 4
        /\ ~result[p].success /\ ~TouchedLedger(p)

\* With no threshold configured and all five tokens verified, the
\* attestation went on to the ledger.
C21_WitnessPassed ==
    \E p \in Procs :
        /\ loc[p].variant = "attestor" /\ loc[p].threshold = {}
        /\ Cardinality(loc[p].verified) = 5 /\ TouchedLedger(p)

\* The place of each write in the order of the pipeline.
Rank(k) ==
    CASE k = "wallet" -> 1 [] k = "predicate" -> 2 [] k = "social" -> 3 [] k = "triple" -> 4

\* The write of kind k of invocation p is submitted in this step.
Submitted(p, k) == txs[<<p, k>>].status = "none" /\ txs'[<<p, k>>].status = "pending"

\* C22: within one invocation the writes are submitted in the order wallet
\* node, predicate node, social node, edge, skipping the nodes found to
\* exist; a write is submitted only once the receipt of each earlier write
\* of the invocation was obtained with status success; and at most one
\* write of an invocation is unconfirmed at any time.
C22_WritesInOrderOneAtATime ==
    [][\A p \in Procs : \A k \in WriteKinds :
          (Pipeline(p) /\ Submitted(p, k)) =>
              /\ \A j \in WriteKinds \ {k} :
                    IF Rank(j) < Rank(k)
                    THEN \/ loc[p].exists[j] /\ txs[<<p, j>>].status = "none"
                         \/ /\ ~loc[p].exists[j] /\ loc[p].created[j]
                            /\ txs[<<p, j>>].status = "success"
                    ELSE txs[<<p, j>>].status = "none"
              /\ Cardinality({j \in WriteKinds : txs'[<<p, j>>].status = "pending"}) = 1]_vars

\* C22 witness: the edge write is unconfirmed after the wallet, predicate and
\* social nodes were created, in that order, by the same invocation.
C22_Witness ==
    \E p \in Procs :
        /\ Live(p) /\ Pipeline(p)
        /\ Tx(p, "triple").status = "pending"
        /\ \A k \in AtomKinds : loc[p].created[k] /\ Tx(p, k).status = "success"
        /\ Count(calls[p], "createAtoms") = 3

\* Every call b of the sequence has a call a before it.
Before(seq, a, b) ==
    \A j \in DOMAIN seq : seq[j] = b => \E i \in DOMAIN seq : i < j /\ seq[i] = a

Issued(p, name) == \E i \in DOMAIN calls[p] : calls[p][i] = name

\* C23: within one invocation no write is submitted before all three
\* existence checks and both cost reads have returned, no existence check
\* is issued before the three atom ids have been computed, and the pin
\* call is issued only after the token verification succeeded.
C23_BatchesCompleteBeforeTheNextStep ==
    \A p \in Procs :
        (Live(p) /\ Pipeline(p)) =>
            /\ Issued(p, "pinThing") =>
                  /\ Before(calls[p], "oauth", "pinThing")
                  /\ pc[p] # "verify" /\ loc[p].userId # NoVal
            /\ Issued(p, "isTermCreated") =>
                  /\ Before(calls[p], "calculateAtomId", "isTermCreated")
                  /\ pc[p] \notin {"verify", "pin", "calcIds"}
                  /\ loc[p].socialIpfsUri # NoVal
            /\ (\E k \in WriteKinds : Tx(p, k).status # "none") =>
                  /\ \A w \in {"createAtoms", "createTriples"} :
                        /\ Before(calls[p], "isTermCreated", w)
                        /\ Before(calls[p], "getAtomCost", w)
                        /\ Before(calls[p], "getTripleCost", w)
                  /\ loc[p].pendingReads = {}
                  /\ pc[p] \notin {"verify", "pin", "calcIds", "exists", "costs"}
                  /\ loc[p].atomCost \in AtomCosts /\ loc[p].tripleCost \in TripleCosts

\* C23 witness: the first write of an invocation is unconfirmed, after its
\* verification, pin, ids, three existence checks and two cost reads.
C23_Witness ==
    \E p \in Procs :
        /\ Live(p) /\ Pipeline(p) /\ pc[p] = "wait"
        /\ calls[p] = <<"oauth", "pinThing", "calculateAtomId", "isTermCreated",
                        "getAtomCost", "getTripleCost", "createAtoms">>
        /\ loc[p].pendingReads = {}

\* The writes of kind in ks that invocation p has submitted, in the next state.
SubmittedKinds(p, ks) == {k \in ks : txs'[<<p, k>>].status # "none"}

\* C24: within one invocation no write is submitted twice; once the receipt
\* of a write has a non-success status, or a submission or a wait throws,
\* the invocation ends and submits no further write; so an invocation
\* submits at most three createAtoms and at most one createTriples.
C24_NoWriteTwiceNoneAfterAFailure ==
    [][\A p \in Procs :
          (pc'[p] \notin {"idle", "archived"} /\ loc'[p].variant \in Variants) =>
              /\ Count(calls'[p], "createAtoms") = Cardinality(SubmittedKinds(p, AtomKinds))
              /\ Count(calls'[p], "createTriples") = Cardinality(SubmittedKinds(p, {"triple"}))
              /\ Count(calls'[p], "createAtoms") <= 3
              /\ Count(calls'[p], "createTriples") <= 1
              /\ \A k \in WriteKinds :
                    /\ txs[<<p, k>>].status \in {"success", "reverted"} =>
                          txs'[<<p, k>>].status = txs[<<p, k>>].status
                    /\ (pc[p] = "wait" /\ loc[p].cur = k /\ pc'[p] # "wait"
                          /\ txs[<<p, k>>].status # "success") => Ended(p)'
                    /\ (pc[p] = "send" /\ loc[p].cur = k /\ pc'[p] \notin {"send", "wait"}) => Ended(p)'
                    /\ Ended(p) => txs'[<<p, k>>].status \in {txs[<<p, k>>].status,
                                                               "success", "reverted"}
                    /\ Ended(p) => calls'[p] = calls[p]]_vars

\* C24 witness: the createAtoms of the predicate node reverted after the
\* wallet node was created, and the invocation returned having submitted
\* nothing more.
C24_Witness ==
    \E p \in Procs :
        /\ pc[p] = "returned" /\ Pipeline(p)
        /\ Tx(p, "wallet").status = "success" /\ Tx(p, "predicate").status = "reverted"
        /\ Tx(p, "social").status = "none" /\ Tx(p, "triple").status = "none"
        /\ Count(calls[p], "createAtoms") = 2 /\ Count(calls[p], "createTriples") = 0

\* The invocation waits for the receipt of a write that is not yet confirmed.
Unconfirmed(p) ==
    /\ pc[p] = "wait" /\ Pipeline(p)
    /\ Tx(p, loc[p].cur).status = "pending"

\* C25 (as claimed): across concurrent invocations that sign with the one
\* bot account, writes are serialized: at no time are two transactions of
\* the account submitted and not yet confirmed.
C25_Original ==
    \A p, q \in Procs : (p # q /\ Unconfirmed(p)) => ~Unconfirmed(q)

\* Another invocation for the same wallet address or the same platform is
\* running alongside p.
ConcurrentOnSameTarget(p) ==
    \E q \in Procs \ {p} :
        /\ pc[q] # "idle" /\ ~Done(q) /\ Pipeline(q)
        /\ \/ loc[q].walletAddress = loc[p].walletAddress
           \/ loc[q].platform = loc[p].platform

\* C26 (as claimed): under every interleaving of two concurrent invocations
\* for the same wallet address or the same platform, no createAtoms is
\* submitted for a payload whose node exists on the ledger at the moment of
\* the submission.
C26_Original ==
    [][\A p \in Procs : \A k \in AtomKinds :
          (Pipeline(p) /\ Submitted(p, k) /\ ConcurrentOnSameTarget(p)) =>
              calculateAtomId(txs'[<<p, k>>].args[1]) \notin atoms]_vars

\* The ledger holds a claim edge from the wallet node of p through its
\* predicate node to a social node other than the social node of p.
OtherEdgeOnLedger(p) ==
    \E o \in atoms :
        /\ o # AtomId(loc[p], "social")
        /\ calculateTripleId(AtomId(loc[p], "wallet"), AtomId(loc[p], "predicate"), o)
               \in triples

Position(stage, cur) ==
    CASE stage = "idle"     -> 0
      [] stage = "verify"   -> 1
      [] stage = "pin"      -> 2
      [] stage = "calcIds"  -> 3
      [] stage = "exists"   -> 4
      [] stage = "costs"    -> 5
      [] stage = "send"     -> 4 + 2 * Rank(cur)
      [] stage = "wait"     -> 5 + 2 * Rank(cur)
      [] stage \in {"returned", "threw"} -> 20
      [] OTHER -> 21

\* C28: the pipeline has no loop and no back-edge: each step of an
\* invocation takes it to a later stage; and provided every external call
\* eventually returns or fails, every invocation that began eventually
\* returns a result.
C28_LinearAndTerminating ==
    /\ [][\A p \in Procs :
            (loc'[p].variant \in Variants /\ pc'[p] # pc[p]) =>
                Position(pc'[p], loc'[p].cur) > Position(pc[p], loc[p].cur)]_vars
    /\ \A p \in Procs : (pc[p] # "idle") ~> (pc[p] \in {"returned", "archived"})

\* C28 witness: an invocation has returned after going through every stage:
\* verification, pin, ids, checks, costs, three node writes and the edge write.
C28_Witness ==
    \E p \in Procs :
        /\ pc[p] = "returned" /\ Pipeline(p)
        /\ calls[p] = <<"oauth", "pinThing", "calculateAtomId", "isTermCreated",
                        "getAtomCost", "getTripleCost", "createAtoms", "createAtoms",
                        "createAtoms", "createTriples">>
        /\ Tx(p, "triple").status \in {"success", "reverted"}

\* The invocation has asked the ledger for its three atom ids.
RequestedIds(p) == Live(p) /\ Pipeline(p) /\ Issued(p, "calculateAtomId")

\* Invocations p and q agree on the node of kind k: the payload, the id
\* requested, the createAtoms submitted and the place i of the edge write.
SameNode(p, q, k, i) ==
    /\ AtomData(loc[p], k) = AtomData(loc[q], k)
    /\ AtomId(loc[p], k) = AtomId(loc[q], k)
    /\ (Tx(p, k).status # "none" /\ Tx(q, k).status # "none") =>
           Tx(p, k).args = Tx(q, k).args
    /\ (Tx(p, "triple").status # "none" /\ Tx(q, "triple").status # "none") =>
           Tx(p, "triple").args[i] = Tx(q, "triple").args[i]

\* C29: any two invocations on the same platform use the same predicate
\* payload and request the same predicate atom id, whatever their wallet,
\* token or user id: the payload is the platform's fixed predicate text;
\* and any two invocations given the same wallet address text use the same
\* wallet payload and wallet atom id.
C29_PayloadsDependOnTheirInputAlone ==
    \A p, q \in Procs :
        (RequestedIds(p) /\ RequestedIds(q)) =>
            /\ AtomData(loc[p], "predicate") = stringToHex(PREDICATE_NAMES[loc[p].platform])
            /\ AtomData(loc[p], "wallet") = stringToHex(loc[p].walletAddress)
            /\ loc[p].platform = loc[q].platform => SameNode(p, q, "predicate", 2)
            /\ loc[p].walletAddress = loc[q].walletAddress => SameNode(p, q, "wallet", 1)

\* C29 witness: of two invocations on the same platform for two wallets,
\* one has created the predicate node and the other, having found it, has
\* submitted its edge write with the same predicate id.
C29_Witness ==
    \E p, q \in Procs :
        /\ RequestedIds(p) /\ RequestedIds(q) /\ p # q
        /\ loc[p].platform = loc[q].platform
        /\ loc[p].walletAddress # loc[q].walletAddress
        /\ Tx(p, "predicate").status = "success" /\ loc[q].exists["predicate"]
        /\ Tx(q, "triple").status # "none" /\ Tx(p, "triple").status # "none"
        /\ Tx(q, "triple").args[2] = Tx(p, "triple").args[2]

\* C30: for twitch, verifyAndGetUserId without a client id returns
\* valid:false with the error 'Twitch Client ID required' and sends no HTTP
\* request; for every other platform the outcome and the request do not
\* depend on whether a client id is supplied.
C30_ClientIdMattersForTwitchAlone ==
    /\ \A p \in Procs :
         (Ended(p) /\ loc[p].platform = "twitch" /\ ~loc[p].hasClientId) =>
             /\ pc[p] = "returned"
             /\ ~result[p].valid /\ result[p].userId = NoVal
             /\ result[p].error = "Twitch Client ID required"
             /\ calls[p] = <<>>
    /\ \A p \in Procs :
         (Ended(p) /\ loc[p].platform = "twitch" /\ loc[p].hasClientId) => Requested(p)
    /\ \A p, q \in Procs :
         (Ended(p) /\ Ended(q) /\ loc[p].platform # "twitch") =>
             /\ result[p] = result[q]
             /\ Requested(p) /\ Requested(q)

\* C30 witness: of two twitch calls against one valid answer, the one
\* without a client id returned the error unsent, the other the user id.
C30_Witness ==
    \E p, q \in Procs :
        /\ pc[p] = "returned" /\ pc[q] = "returned"
        /\ loc[p].platform = "twitch" /\ loc[p].resp.body.data0id \in UserIds
        /\ ~loc[p].hasClientId /\ loc[q].hasClientId
        /\ result[p].error = "Twitch Client ID required" /\ calls[p] = <<>>
        /\ result[q].valid /\ Requested(q)

\* Two discord calls, one with and one without a client id, returned the
\* same user id.
C30_WitnessOther ==
    \E p, q \in Procs :
        /\ pc[p] = "returned" /\ pc[q] = "returned"
        /\ loc[p].platform = "discord" /\ ~loc[p].hasClientId /\ loc[q].hasClientId
        /\ result[p].valid /\ result[q] = result[p]

\* The invocation of the client ended inside the creation of the user atom.
UserAtomCreationFailed(p) ==
    /\ pc[p] = "returned" /\ loc[p].cur = "wallet"
    /\ ~loc[p].exists /\ ~loc[p].created

\* C31 (as claimed): AttestorService.createAttestation submits createTriples
\* only when the user atom exists (isTermCreated returned true, or its
\* createAtoms was confirmed with a success receipt in this invocation);
\* and when the creation of the user atom fails it returns 'Failed to
\* create user atom' and submits no createTriples.
C31_Original ==
    \A p \in Procs :
        /\ txs[<<p, "triple">>].status # "none" =>
              \/ loc[p].exists
              \/ loc[p].created /\ txs[<<p, "wallet">>].status = "success"
        /\ UserAtomCreationFailed(p) =>
              /\ result[p].error = "Failed to create user atom"
              /\ txs[<<p, "triple">>].status = "none"

\* The triple (user atom, predicateId, objectId) of an attestor invocation.
AttestationId(l) == calculateTripleId(calculateAtomId(stringToHex(l.walletAddress)),
                                      predicateId, objectId)

\* C32: in BotAttestorService.createAttestation, when the check finds the
\* triple (user atom, predicateId, objectId) on the ledger, the call
\* returns success:true with tripleAlreadyExists true and submits no
\* createTriples transaction.
C32_ExistingTripleIsReportedNotRewritten ==
    [][\A p \in Procs :
          /\ (/\ loc[p].variant = "attestor" /\ pc[p] = "a_tripleExists"
              /\ pc'[p] \notin {"a_tripleExists", "archived"}
              /\ result'[p].error.text # "network error"
              /\ AttestationId(loc[p]) \in triples) =>
                 /\ pc'[p] = "returned"
                 /\ result'[p].success /\ result'[p].tripleAlreadyExists
                 /\ result'[p].verified = loc[p].verified
                 /\ txs'[<<p, "triple">>].status = "none"
                 /\ Count(calls'[p], "createTriples") = 0
          /\ (loc'[p].variant = "attestor" /\ result'[p].tripleAlreadyExists) =>
                 /\ txs'[<<p, "triple">>].status = "none"
                 /\ AttestationId(loc'[p]) \in triples']_vars

\* C32 witness: a second attestation for a wallet whose triple the first
\* one created returned success with tripleAlreadyExists and no edge write.
C32_Witness ==
    \E p \in Procs :
        /\ loc[p].variant = "attestor" /\ pc[p] = "returned"
        /\ result[p].success /\ result[p].tripleAlreadyExists
        /\ AttestationId(loc[p]) \in triples
        /\ Tx(p, "triple").status = "none"
        /\ \E q \in Procs \ {p} : pc[q] = "archived" /\ result[q].success

\* A call of the mounted hook instance made since its last reset.
CurrentCall(p) == loc[p].mounts = hook.mounts /\ loc[p].resets = hook.resets

\* The hook function called by p has returned a success.
ReturnedSuccess(p) == pc[p] = "returned" /\ result[p].success

\* C33: in useVerification, once linkSocialAccount has returned success:true
\* to a caller of the mounted instance (and the hook was not reset since),
\* isVerified is true.
C33_Original ==
    \A p \in Procs :
        (hook.kind = "useVerification" /\ ReturnedSuccess(p) /\ CurrentCall(p))
            => hook.isDone

\* The hook function called by p awaits its service call.
InFlight(p) == pc[p] = "h_service"

\* C34: the in-progress flag of the hook (isAttesting / isVerifying) is true
\* exactly when at least one call of the hook function is awaiting its
\* service call, overlapping calls included.
C34_Original == hook.inProgress <=> (\E p \in Procs : InFlight(p))

\* C35: for one useAttestation instance between resets, once a call has
\* returned a success, every call that returns afterwards (one started before
\* that success included) returns 'Already attested' and has not called the
\* service.
C35_Original ==
    [][\A p \in Procs :
          ( /\ hook.kind = "useAttestation"
            /\ pc[p] # "returned" /\ pc'[p] = "returned"
            /\ pc[p] = "idle" \/ CurrentCall(p)
            /\ \E q \in Procs \ {p} : ReturnedSuccess(q) /\ CurrentCall(q) )
          => (result'[p].error = "Already attested" /\ calls'[p] = <<>>)]_vars

\* C36: in useVerification, when the service's linkSocialAccount returned
\* success:true, the hook's linkSocialAccount returns that successful result,
\* whatever the storage key holds.
C36_Original ==
    \A p \in Procs :
        (hook.kind = "useVerification" /\ pc[p] = "returned"
           /\ loc[p].serviceResult.success)
            => (result[p].success /\ result[p].txHash = loc[p].serviceResult.txHash)

\* The call of p was started before the last reset() of the hook.
StartedBeforeReset(p) == InFlight(p) /\ loc[p].resets < hook.resets

\* C37: in useAttestation, a call that was in flight when reset() ran leaves
\* isAttested and the storage key as the reset left them when it returns, and
\* reset() itself leaves isAttesting and canAttest unchanged.
C37_Original ==
    [][hook.kind = "useAttestation" =>
          /\ \A p \in Procs :
                (StartedBeforeReset(p) /\ pc'[p] = "returned")
                    => (hook'.isDone = hook.isDone /\ storage' = storage)
          /\ hook'.resets # hook.resets
                => (hook'.inProgress = hook.inProgress /\ hook'.can = hook.can)]_vars

\* C38: in useVerification with a storage key, after linkSocialAccount has
\* returned a success, an instance mounted afterwards with the same key and the
\* same wallet in either spelling loads isVerified = true, whatever the key
\* held before the call.
C38_Original ==
    \A p \in Procs :
        ( /\ hook.kind = "useVerification" /\ hook.storageKey
          /\ ReturnedSuccess(p)
          /\ loc[p].resets = hook.resets /\ loc[p].mounts < hook.mounts )
            => hook.isDone

====
